---- MODULE Spec2Model ----
(***************************************************************************)
(* A model of the "stepper" reasoning-trace pipeline: the text-analysis    *)
(* primitives, the incremental ThinkingParser, the SessionManager, the     *)
(* WebSocketManager and the run_analysis background task that ties them    *)
(* together.                                                               *)
(*                                                                         *)
(* Text is a sequence of one-character strings, so that splitting,         *)
(* trimming, lower-casing, substring search and word-boundary matching are *)
(* computed the way the Python code computes them.                         *)
(***************************************************************************)
EXTENDS Integers, Sequences, FiniteSets, TLC

VARIABLES
    sessions,            \* SessionManager.sessions: session_id -> Session
    ip_sessions,         \* SessionManager.ip_sessions: ip -> list of session ids
    now,                 \* datetime.utcnow(), in hours
    next_id,             \* the next fresh session id (uuid4 never repeats)
    response,            \* what the last request / call returned to its caller
    active_connections,  \* WebSocketManager.active_connections
    ws,                  \* each websocket_endpoint task and its connection
    delivered,           \* per websocket: the messages send_json delivered
    task,                \* each run_analysis background task
    parser,              \* each ThinkingParser instance
    emitted,             \* per parser: the nodes its generators yielded
    input,               \* the text a driver feeds to the parsers
    last_op              \* the operation that made the last step

vars == <<sessions, ip_sessions, now, next_id, response, active_connections,
          ws, delivered, task, parser, emitted, input, last_op>>

(***************************************************************************)
(* Characters and strings                                                  *)
(***************************************************************************)
Lowers == {"a","b","c","d","e","f","g","h","i","j","k","l","m",
           "n","o","p","q","r","s","t","u","v","w","x","y","z"}

Uppers == {"A","B","C","D","E","F","G","H","I","J","K","L","M",
           "N","O","P","Q","R","S","T","U","V","W","X","Y","Z"}

\* the regex class \s
IsSpace(c) == c \in {" ", "\n", "\t", "\r"}

\* the regex class [.!?]
IsTerminal(c) == c \in {".", "!", "?"}

\* the regex class \w
IsWordChar(c) ==
    \/ c \in Lowers
    \/ c \in Uppers
    \/ c \in {"0","1","2","3","4","5","6","7","8","9","_"}

LowerChar(c) ==
    IF c \in Uppers
    THEN LET upper == <<"A","B","C","D","E","F","G","H","I","J","K","L","M","N","O","P","Q","R","S","T","U","V","W","X","Y","Z">>
             lower == <<"a","b","c","d","e","f","g","h","i","j","k","l","m","n","o","p","q","r","s","t","u","v","w","x","y","z">>
         IN  lower[CHOOSE i \in 1..26 : upper[i] = c]
    ELSE c

\* str.lower()
Lower(text) == [i \in 1..Len(text) |-> LowerChar(text[i])]

\* Op(v), with v evaluated once before Op uses it, as an assignment does
Bind(v, Op(_)) == CHOOSE r \in { Op(x) : x \in {v} } : TRUE

\* pat occurs in text at index i
MatchAt(text, i, pat) ==
    /\ i + Len(pat) - 1 <= Len(text)
    /\ \A j \in 1..Len(pat) : text[i + j - 1] = pat[j]

\* the Python test `pat in text`
Contains(text, pat) ==
    \E i \in 1..(Len(text) - Len(pat) + 1) : \A j \in 1..Len(pat) : text[i + j - 1] = pat[j]

\* the regex assertion \b at the gap before index i
BoundaryAt(text, i) ==
    LET before == i > 1 /\ i - 1 <= Len(text) /\ IsWordChar(text[i - 1])
        after  == i >= 1 /\ i <= Len(text) /\ IsWordChar(text[i])
    IN  before # after

\* alternative k of \b(alt1|alt2|...)\b matches at index i
AltMatchesAt(text, i, alts, k) ==
    /\ MatchAt(text, i, alts[k])
    /\ BoundaryAt(text, i)
    /\ BoundaryAt(text, i + Len(alts[k]))

\* the indices at or after start where some alternative matches
MatchStarts(text, start, alts) ==
    { i \in start..Len(text) :
        BoundaryAt(text, i) /\ \E k \in 1..Len(alts) : AltMatchesAt(text, i, alts, k) }

\* the matches are taken leftmost first and do not overlap
RECURSIVE CountFrom(_, _, _)
CountFrom(text, start, alts) ==
    LET starts == MatchStarts(text, start, alts)
    IN  IF starts = {} THEN 0
        ELSE LET i     == CHOOSE x \in starts : \A y \in starts : x <= y
                 ks    == { k \in 1..Len(alts) : AltMatchesAt(text, i, alts, k) }
                 first == CHOOSE k \in ks : \A m \in ks : k <= m
             IN  1 + CountFrom(text, i + Len(alts[first]), alts)

\* len(re.findall(r'\b(alt1|alt2|...)\b', text))
CountPattern(text, alts) == CountFrom(text, 1, alts)

\* bool(re.search(r'\bword\b', text))
SearchWord(text, word) ==
    \E i \in 1..Len(text) :
        MatchAt(text, i, word) /\ BoundaryAt(text, i) /\ BoundaryAt(text, i + Len(word))

\* the elements of a set of integers, in increasing order
SortedSeq(S) ==
    [r \in 1..Cardinality(S) |-> CHOOSE i \in S : Cardinality({ j \in S : j < i }) = r - 1]

\* str.strip()
Strip(text) ==
    LET keep == { i \in 1..Len(text) : ~IsSpace(text[i]) }
    IN  IF keep = {} THEN <<>>
        ELSE LET lo == CHOOSE i \in keep : \A j \in keep : i <= j
                 hi == CHOOSE i \in keep : \A j \in keep : i >= j
             IN  SubSeq(text, lo, hi)

\* len(text.split())
WordCount(text) ==
    Cardinality({ i \in 1..Len(text) :
        ~IsSpace(text[i]) /\ (i = 1 \/ IsSpace(text[i - 1])) })

(***************************************************************************)
(* app/utils/text_analysis.py                                              *)
(***************************************************************************)
\* the last index of the run of \w characters that starts at i
WordRunEnd(text, i) ==
    CHOOSE j \in i..Len(text) :
        /\ \A k \in i..j : IsWordChar(text[k])
        /\ (j = Len(text) \/ ~IsWordChar(text[j + 1]))

\* re.findall(r'\b[a-z]{3,}\b', text): the runs of \w characters that are made of
\* three or more lower-case letters, in order
FindWords(text) ==
    LET starts == { i \in 1..Len(text) :
                      /\ IsWordChar(text[i])
                      /\ (i = 1 \/ ~IsWordChar(text[i - 1]))
                      /\ LET j == WordRunEnd(text, i)
                         IN  j - i + 1 >= 3 /\ \A k \in i..j : text[k] \in Lowers }
        order  == SortedSeq(starts)
    IN  [r \in 1..Len(order) |-> SubSeq(text, order[r], WordRunEnd(text, order[r]))]

stop_words == {
    <<"t","h","e">>, <<"i","s">>, <<"a","t">>, <<"w","h","i","c","h">>, <<"o","n">>, <<"a">>, <<"a","n">>, <<"a","n","d">>, <<"o","r">>, <<"b","u","t">>,
    <<"i","n">>, <<"w","i","t","h">>, <<"t","o">>, <<"f","o","r">>, <<"o","f">>, <<"a","s">>, <<"b","y">>, <<"t","h","a","t">>, <<"t","h","i","s">>,
    <<"f","r","o","m">>, <<"a","r","e">>, <<"w","a","s">>, <<"w","e","r","e">>, <<"b","e","e","n">>, <<"b","e">>, <<"h","a","v","e">>, <<"h","a","s">>, <<"h","a","d">>,
    <<"d","o">>, <<"d","o","e","s">>, <<"d","i","d">>, <<"w","i","l","l">>, <<"w","o","u","l","d">>, <<"c","o","u","l","d">>, <<"s","h","o","u","l","d">>, <<"m","a","y">>,
    <<"m","i","g","h","t">>, <<"c","a","n">>, <<"i","t">>, <<"i","t","s">>, <<"t","h","e","y">>, <<"t","h","e","m">>, <<"t","h","e","i","r">>, <<"w","e">>, <<"o","u","r">>,
    <<"y","o","u">>, <<"y","o","u","r">>, <<"i">>, <<"m","y">>, <<"m","e">>, <<"h","e">>, <<"s","h","e">>, <<"h","i","m">>, <<"h","e","r">> }

\* the keys of Counter(seq), in insertion order
CounterKeys(seq) ==
    LET firsts == { i \in 1..Len(seq) : \A j \in 1..(i - 1) : seq[j] # seq[i] }
        order  == SortedSeq(firsts)
    IN  [r \in 1..Len(order) |-> seq[order[r]]]

CounterCount(seq, w) == Cardinality({ i \in 1..Len(seq) : seq[i] = w })

\* a variant that takes the first n keys in insertion order
MostCommon_InsertionOrder(keys, seq, n) ==
    SubSeq(keys, 1, IF n < Len(keys) THEN n ELSE Len(keys))

\* Counter.most_common(n): by count, descending; equal counts in insertion order
RECURSIVE MostCommon(_, _, _)
MostCommon(keys, seq, n) ==
    IF n = 0 \/ keys = <<>> THEN <<>>
    ELSE LET best == CHOOSE i \in 1..Len(keys) :
                 /\ \A j \in 1..Len(keys) :
                        CounterCount(seq, keys[i]) >= CounterCount(seq, keys[j])
                 /\ \A j \in 1..(i - 1) :
                        CounterCount(seq, keys[j]) < CounterCount(seq, keys[i])
             rest == SubSeq(keys, 1, best - 1) \o SubSeq(keys, best + 1, Len(keys))
         IN  <<keys[best]>> \o MostCommon(rest, seq, n - 1)

extract_keywords(text, top_n) ==
    Bind(SelectSeq(FindWords(Lower(text)), LAMBDA w : w \notin stop_words),
         LAMBDA filtered_words :
             Bind(CounterKeys(filtered_words),
                  LAMBDA keys : MostCommon(keys, filtered_words, top_n)))

certainty_patterns == <<
    << <<"c","l","e","a","r","l","y">>, <<"o","b","v","i","o","u","s","l","y">>, <<"d","e","f","i","n","i","t","e","l","y">>, <<"c","e","r","t","a","i","n","l","y">>, <<"s","u","r","e","l","y">>, <<"m","u","s","t">>, <<"w","i","l","l">> >>,
    << <<"a","l","w","a","y","s">>, <<"n","e","v","e","r">>, <<"a","b","s","o","l","u","t","e","l","y">>, <<"u","n","d","o","u","b","t","e","d","l","y">>, <<"u","n","q","u","e","s","t","i","o","n","a","b","l","y">> >>,
    << <<"c","o","r","r","e","c","t">>, <<"r","i","g","h","t">>, <<"t","r","u","e">>, <<"e","x","a","c","t">>, <<"p","r","e","c","i","s","e">> >> >>

hedging_patterns == <<
    << <<"m","a","y","b","e">>, <<"p","e","r","h","a","p","s">>, <<"p","o","s","s","i","b","l","y">>, <<"p","r","o","b","a","b","l","y">>, <<"m","i","g","h","t">>, <<"c","o","u","l","d">>, <<"m","a","y">> >>,
    << <<"u","n","c","e","r","t","a","i","n">>, <<"u","n","s","u","r","e">>, <<"u","n","c","l","e","a","r">>, <<"a","m","b","i","g","u","o","u","s">>, <<"v","a","g","u","e">> >>,
    << <<"s","e","e","m","s">>, <<"a","p","p","e","a","r","s">>, <<"s","u","g","g","e","s","t","s">>, <<"i","n","d","i","c","a","t","e","s">> >>,
    << <<"s","o","m","e","w","h","a","t">>, <<"s","l","i","g","h","t","l","y">>, <<"f","a","i","r","l","y">>, <<"r","a","t","h","e","r">>, <<"q","u","i","t","e">> >>,
    << <<"I"," ","t","h","i","n","k">>, <<"I"," ","b","e","l","i","e","v","e">>, <<"I"," ","g","u","e","s","s">>, <<"I"," ","a","s","s","u","m","e">> >> >>

RECURSIVE SumCounts(_, _)
SumCounts(text, patterns) ==
    IF patterns = <<>> THEN 0
    ELSE CountPattern(text, Head(patterns)) + SumCounts(text, Tail(patterns))

\* the confidence in hundredths: 70 is 0.7, 5 is 0.05, 8 is 0.08, 100 is 1.0
calculate_confidence(text) ==
    Bind(Lower(text), LAMBDA text_lower :
        LET \* text.count('?')
            question_marks  == Cardinality({ i \in 1..Len(text) : text[i] = "?" })
            certainty_count == SumCounts(text_lower, certainty_patterns)
            hedging_count   == SumCounts(text_lower, hedging_patterns)
        IN  Bind(70 + certainty_count * 5 - hedging_count * 8 - question_marks * 5,
                 \* max(0.0, min(1.0, confidence))
                 LAMBDA confidence : IF confidence < 0 THEN 0
                                     ELSE IF confidence > 100 THEN 100 ELSE confidence))

detect_linguistic_cues(text) ==
    Bind(Lower(text), LAMBDA text_lower :
        [ has_therefore |-> SearchWord(text_lower, <<"t","h","e","r","e","f","o","r","e">>),
          has_since     |-> SearchWord(text_lower, <<"s","i","n","c","e">>),
          has_this      |-> SearchWord(text_lower, <<"t","h","i","s">>),
          has_that      |-> SearchWord(text_lower, <<"t","h","a","t">>),
          has_because   |-> SearchWord(text_lower, <<"b","e","c","a","u","s","e">>),
          has_so        |-> SearchWord(text_lower, <<"s","o">>),
          has_thus      |-> SearchWord(text_lower, <<"t","h","u","s">>),
          has_hence     |-> SearchWord(text_lower, <<"h","e","n","c","e">>) ])

SeqToSet(seq) == { seq[i] : i \in 1..Len(seq) }

count_shared_keywords(keywords1, keywords2) ==
    Cardinality(SeqToSet(keywords1) \cap SeqToSet(keywords2))

(***************************************************************************)
(* app/services/thinking_parser.py                                         *)
(***************************************************************************)
analysis_keywords == <<
    <<"n","e","e","d"," ","t","o">>, <<"f","i","r","s","t">>, <<"l","e","t","'","s">>, <<"c","o","n","s","i","d","e","r">>, <<"a","n","a","l","y","z","e">>,
    <<"u","n","d","e","r","s","t","a","n","d">>, <<"e","x","a","m","i","n","e">>, <<"l","o","o","k"," ","a","t">>, <<"r","e","v","i","e","w">>, <<"a","s","s","e","s","s">> >>

decision_keywords == <<
    <<"w","i","l","l"," ","u","s","e">>, <<"b","e","s","t"," ","a","p","p","r","o","a","c","h">>, <<"s","h","o","u","l","d">>, <<"c","h","o","o","s","e">>,
    <<"d","e","c","i","d","e">>, <<"s","e","l","e","c","t">>, <<"o","p","t"," ","f","o","r">>, <<"g","o"," ","w","i","t","h">>, <<"p","r","e","f","e","r">> >>

verification_keywords == <<
    <<"c","h","e","c","k">>, <<"v","e","r","i","f","y">>, <<"c","o","n","f","i","r","m">>, <<"e","n","s","u","r","e">>, <<"t","e","s","t">>,
    <<"v","a","l","i","d","a","t","e">>, <<"p","r","o","v","e">>, <<"d","e","m","o","n","s","t","r","a","t","e">>, <<"s","h","o","w"," ","t","h","a","t">> >>

alternative_keywords == <<
    <<"a","l","t","e","r","n","a","t","i","v","e","l","y">>, <<"a","n","o","t","h","e","r"," ","o","p","t","i","o","n">>, <<"c","o","u","l","d"," ","a","l","s","o">>, <<"o","r">>,
    <<"i","n","s","t","e","a","d">>, <<"d","i","f","f","e","r","e","n","t"," ","a","p","p","r","o","a","c","h">>, <<"o","t","h","e","r"," ","w","a","y">>, <<"e","l","s","e">> >>

implementation_keywords == <<
    <<"i","m","p","l","e","m","e","n","t">>, <<"c","o","d","e">>, <<"f","u","n","c","t","i","o","n">>, <<"c","l","a","s","s">>, <<"d","e","f">>,
    <<"c","r","e","a","t","e">>, <<"b","u","i","l","d">>, <<"w","r","i","t","e">>, <<"d","e","v","e","l","o","p">>, <<"c","o","n","s","t","r","u","c","t">> >>

\* a variant that scores a type 1 as soon as any of its keywords is present
KeywordScore_AnyHit(text_lower, keywords) ==
    IF \E k \in 1..Len(keywords) : Contains(text_lower, keywords[k]) THEN 1 ELSE 0

\* sum(1 for kw in keywords if kw in text_lower)
KeywordScore(text_lower, keywords) ==
    Cardinality({ k \in 1..Len(keywords) : Contains(text_lower, keywords[k]) })

\* the scores dict, in its insertion order
TypeScores(text) ==
    Bind(Lower(text), LAMBDA text_lower :
        << [type |-> "implementation", score |-> KeywordScore(text_lower, implementation_keywords)],
           [type |-> "verification",   score |-> KeywordScore(text_lower, verification_keywords)],
           [type |-> "decision",       score |-> KeywordScore(text_lower, decision_keywords)],
           [type |-> "alternative",    score |-> KeywordScore(text_lower, alternative_keywords)],
           [type |-> "analysis",       score |-> KeywordScore(text_lower, analysis_keywords)] >>)

\* a variant that returns the last item with the highest score
MaxByScore_Last(scores) ==
    scores[CHOOSE i \in 1..Len(scores) :
               /\ \A j \in 1..Len(scores) : scores[i].score >= scores[j].score
               /\ \A j \in (i + 1)..Len(scores) : scores[j].score < scores[i].score]

\* max(scores.items(), key=lambda x: x[1]): the first item with the highest score
MaxByScore(scores) ==
    scores[CHOOSE i \in 1..Len(scores) :
               /\ \A j \in 1..Len(scores) : scores[i].score >= scores[j].score
               /\ \A j \in 1..(i - 1) : scores[j].score < scores[i].score]

classify_thought_type(text) ==
    Bind(TypeScores(text), LAMBDA scores :
        Bind(MaxByScore(scores), LAMBDA max_type :
            \* max_type[0] if max_type[1] > 0 else ThoughtType.ANALYSIS
            IF max_type.score > 0 THEN max_type.type ELSE "analysis"))

\* the first index after the run of [.!?] that starts at i
TerminalRunEnd(text, i) ==
    CHOOSE j \in i..(Len(text) + 1) :
        /\ \A k \in i..(j - 1) : IsTerminal(text[k])
        /\ (j = Len(text) + 1 \/ ~IsTerminal(text[j]))

\* the first index after the run of \s that starts at i
SpaceRunEnd(text, i) ==
    CHOOSE j \in i..(Len(text) + 1) :
        /\ \A k \in i..(j - 1) : IsSpace(text[k])
        /\ (j = Len(text) + 1 \/ ~IsSpace(text[j]))

\* [.!?]+\s+ matches at i
SeparatorAt(text, i) ==
    /\ i <= Len(text)
    /\ IsTerminal(text[i])
    /\ LET j == TerminalRunEnd(text, i)
       IN  j <= Len(text) /\ IsSpace(text[j])

\* the pieces around the leftmost, non-overlapping matches at or after start
RECURSIVE SplitFrom(_, _)
SplitFrom(text, start) ==
    LET starts == { i \in start..Len(text) : SeparatorAt(text, i) }
    IN  IF starts = {} THEN << SubSeq(text, start, Len(text)) >>
        ELSE LET i == CHOOSE x \in starts : \A y \in starts : x <= y
             IN  << SubSeq(text, start, i - 1) >>
                     \o SplitFrom(text, SpaceRunEnd(text, TerminalRunEnd(text, i)))

\* re.split(r'[.!?]+\s+', text)
SplitSentences(text) == SplitFrom(text, 1)

DefaultMinWords == 20

RECURSIVE SegmentLoop(_, _, _, _)
SegmentLoop(sentences, segments, current_segment, min_words) ==
    IF sentences = <<>>
    THEN [segments |-> segments, current_segment |-> current_segment]
    ELSE LET sentence == Strip(Head(sentences))
         IN  IF sentence = <<>>
             THEN SegmentLoop(Tail(sentences), segments, current_segment, min_words)
             ELSE LET joined == IF current_segment # <<>>
                                THEN current_segment \o <<".", " ">> \o sentence
                                ELSE sentence
                  IN  IF WordCount(joined) >= min_words
                      THEN SegmentLoop(Tail(sentences), Append(segments, joined), <<>>, min_words)
                      ELSE SegmentLoop(Tail(sentences), segments, joined, min_words)

\* Add remaining text if substantial
AddRemaining(r, min_words) ==
    IF r.current_segment # <<>> /\ WordCount(r.current_segment) >= min_words \div 2
    THEN Append(r.segments, r.current_segment)
    ELSE r.segments

split_into_segments(text, min_words) ==
    Bind(SplitSentences(text), LAMBDA sentences :
        Bind(SegmentLoop(sentences, <<>>, <<>>, min_words),
             LAMBDA r : AddRemaining(r, min_words)))

\* ThinkingParser.__init__
NewParser(session_id) ==
    [ session_id       |-> session_id,
      node_counter     |-> 0,
      recent_nodes     |-> <<>>,
      x_position       |-> 0,
      y_position       |-> 0,
      accumulated_text |-> <<>> ]

\* the id is the string f"{session_id}_node_{node_counter}"
NodeId(session_id, counter) == <<session_id, "node", counter>>

generate_node_id(p) ==
    [ parser |-> [p EXCEPT !.node_counter = @ + 1],
      id     |-> NodeId(p.session_id, p.node_counter + 1) ]

\* a variant that starts a new row when the counter before the increment of
\* generate_node_id is a multiple of 3
generate_position_CountBefore(p) ==
    [ position |-> [x |-> p.x_position, y |-> p.y_position],
      parser   |-> IF (p.node_counter - 1) % 3 = 0
                   THEN [p EXCEPT !.y_position = @ + 100, !.x_position = 0]
                   ELSE [p EXCEPT !.x_position = @ + 200] ]

generate_position(p) ==
    [ position |-> [x |-> p.x_position, y |-> p.y_position],
      parser   |-> IF p.node_counter % 3 = 0
                   THEN [p EXCEPT !.y_position = @ + 100, !.x_position = 0]
                   ELSE [p EXCEPT !.x_position = @ + 200] ]

\* a variant of the loop that goes from the newest node to the oldest
RECURSIVE SharedKeywordLoop_NewestFirst(_, _, _)
SharedKeywordLoop_NewestFirst(recent, node, dependencies) ==
    IF recent = <<>> THEN dependencies
    ELSE LET recent_node  == recent[Len(recent)]
             shared_count == count_shared_keywords(node.keywords, recent_node.keywords)
             older        == SubSeq(recent, 1, Len(recent) - 1)
         IN  IF shared_count >= 2 /\ recent_node.id \notin SeqToSet(dependencies)
             THEN SharedKeywordLoop_NewestFirst(older, node, Append(dependencies, recent_node.id))
             ELSE SharedKeywordLoop_NewestFirst(older, node, dependencies)

\* the loop over self.recent_nodes[-3:]
RECURSIVE SharedKeywordLoop(_, _, _)
SharedKeywordLoop(recent, node, dependencies) ==
    IF recent = <<>> THEN dependencies
    ELSE LET recent_node  == Head(recent)
             shared_count == count_shared_keywords(node.keywords, recent_node.keywords)
         IN  IF shared_count >= 2 /\ recent_node.id \notin SeqToSet(dependencies)
             THEN SharedKeywordLoop(Tail(recent), node, Append(dependencies, recent_node.id))
             ELSE SharedKeywordLoop(Tail(recent), node, dependencies)

\* a variant without the default link
DefaultDependency_None(recent, dependencies) == dependencies

\* the default: link to the immediate predecessor if there is no other dependency
DefaultDependency(recent, dependencies) ==
    IF dependencies = <<>> /\ recent # <<>>
    THEN <<recent[Len(recent)].id>>
    ELSE dependencies

detect_dependencies(p, node) ==
    Bind(detect_linguistic_cues(node.content), LAMBDA cues :
        Bind(IF /\ \/ cues.has_this \/ cues.has_that \/ cues.has_therefore
                    \/ cues.has_since \/ cues.has_because
                 /\ p.recent_nodes # <<>>
             THEN <<p.recent_nodes[Len(p.recent_nodes)].id>>
             ELSE <<>>,
             LAMBDA linked :
                 \* the loop goes through recent_nodes[-3:]
                 Bind(SharedKeywordLoop(SubSeq(p.recent_nodes,
                                               IF Len(p.recent_nodes) > 3
                                               THEN Len(p.recent_nodes) - 2 ELSE 1,
                                               Len(p.recent_nodes)),
                                        node, linked),
                      LAMBDA dependencies : DefaultDependency(p.recent_nodes, dependencies))))

DefaultTopN == 5

\* self.recent_nodes.append(node), keeping the last 5
RememberNode(p, node) ==
    [ parser |-> [p EXCEPT !.recent_nodes =
                     IF Len(@) + 1 > 5 THEN Tail(Append(@, node)) ELSE Append(@, node)],
      nodes  |-> <<node>> ]

\* node.dependencies = self.detect_dependencies(node)
WithDependencies(p, node) ==
    Bind([node EXCEPT !.dependencies = detect_dependencies(p, node)],
         LAMBDA full : RememberNode(p, full))

\* the ThoughtNode(...) constructor call, after the id and the position were drawn
MakeNode(segment, node_id, pos) ==
    Bind([ id           |-> node_id,
          type         |-> classify_thought_type(segment),
          content      |-> Strip(segment),
          confidence   |-> calculate_confidence(segment),
          keywords     |-> extract_keywords(segment, DefaultTopN),
          dependencies |-> <<>>,
          position     |-> pos.position,
          session_id   |-> pos.parser.session_id ],
         LAMBDA node : WithDependencies(pos.parser, node))

WithNodeId(segment, g) ==
    Bind(generate_position(g.parser), LAMBDA pos : MakeNode(segment, g.id, pos))

\* a variant that draws the node id before it looks at the length
_create_node_from_segment_IdFirst(p, segment) ==
    Bind(generate_node_id(p), LAMBDA g :
        IF segment = <<>> \/ Len(Strip(segment)) < 10
        THEN [parser |-> g.parser, nodes |-> <<>>]
        ELSE WithNodeId(segment, g))

\* returns the parser after the call and the node, if any, as a list of 0 or 1
_create_node_from_segment(p, segment) ==
    IF segment = <<>> \/ Len(Strip(segment)) < 10
    THEN [parser |-> p, nodes |-> <<>>]
    ELSE Bind(generate_node_id(p), LAMBDA g : WithNodeId(segment, g))

\* a variant that treats every segment as complete and empties the buffer
KeepLastSegment_EmitAll(p, accumulated, segments) ==
    IF Len(segments) >= 1
    THEN [ parser |-> [p EXCEPT !.accumulated_text = <<>>],
           todo   |-> segments ]
    ELSE [ parser |-> [p EXCEPT !.accumulated_text = accumulated],
           todo   |-> <<>> ]

\* the complete segments are all but the last; the last stays in the buffer
KeepLastSegment(p, accumulated, segments) ==
    IF Len(segments) > 1
    THEN [ parser |-> [p EXCEPT !.accumulated_text = segments[Len(segments)]],
           todo   |-> SubSeq(segments, 1, Len(segments) - 1) ]
    ELSE [ parser |-> [p EXCEPT !.accumulated_text = accumulated],
           todo   |-> <<>> ]

AccumulateText(p, accumulated) ==
    Bind(split_into_segments(accumulated, DefaultMinWords),
         LAMBDA segments : KeepLastSegment(p, accumulated, segments))

\* parse_incremental up to its loop: the buffer after the call and the complete
\* segments the generator will go through
BeginParseIncremental(p, text_chunk) ==
    Bind(p.accumulated_text \o text_chunk, LAMBDA accumulated : AccumulateText(p, accumulated))

\* one turn of the generator's loop
NextSegment(todo, nodes, r) == [parser |-> r.parser, todo |-> Tail(todo), nodes |-> nodes \o r.nodes]

\* the generator's loop, run to its end
RECURSIVE DrainSegments(_)
DrainSegments(g) ==
    IF g.todo = <<>> THEN [parser |-> g.parser, nodes |-> g.nodes]
    ELSE Bind(_create_node_from_segment(g.parser, Head(g.todo)),
              LAMBDA r : DrainSegments(NextSegment(g.todo, g.nodes, r)))

StartDrain(b) == DrainSegments([parser |-> b.parser, todo |-> b.todo, nodes |-> <<>>])

\* parse_incremental consumed to exhaustion: the parser after it, the nodes yielded
parse_incremental(p, text_chunk) ==
    Bind(BeginParseIncremental(p, text_chunk), LAMBDA b : StartDrain(b))

\* a variant that draws a node id for whatever is in the buffer
finalize_Unguarded(p) == _create_node_from_segment_IdFirst(p, p.accumulated_text)

finalize(p) ==
    IF Strip(p.accumulated_text) # <<>>
    THEN _create_node_from_segment(p, p.accumulated_text)
    ELSE [parser |-> p, nodes |-> <<>>]

(***************************************************************************)
(* State shared by the specifications                                      *)
(***************************************************************************)
\* a dict with no key
EmptyDict == [k \in {} |-> 0]

\* a dict without key k
DictRemove(d, k) == [x \in DOMAIN d \ {k} |-> d[x]]

\* d[k] = v, adding the key when it is new
DictSet(d, k, v) == [x \in DOMAIN d \cup {k} |-> IF x = k THEN v ELSE d[x]]

\* the session id string f"session_{uuid4().hex[:16]}": n stands for the uuid
SessionId(n) == <<"session", n>>

NoInput == [text |-> <<>>, rest |-> <<>>, cut |-> 0, calls |-> 0, finalized |-> {}]

NoResponse == [op |-> "none"]

\* the yields of one generator, tagged with the generator that made them
RECURSIVE Tagged(_, _)
Tagged(nodes, by) ==
    IF nodes = <<>> THEN <<>>
    ELSE <<[node |-> Head(nodes), by |-> by]>> \o Tagged(Tail(nodes), by)

ParserVars == <<parser, emitted, input>>

SystemVars == <<sessions, ip_sessions, now, next_id, response,
                active_connections, ws, delivered, task>>

\* the managers as constructed, no request made yet
SystemInit ==
    /\ sessions = EmptyDict
    /\ ip_sessions = EmptyDict
    /\ now = 0
    /\ next_id = 1
    /\ response = NoResponse
    /\ active_connections = EmptyDict
    /\ ws = EmptyDict
    /\ delivered = EmptyDict
    /\ task = EmptyDict

(***************************************************************************)
(* Calls on a ThinkingParser by a driver that consumes its generators      *)
(***************************************************************************)
\* the parser after a generator was consumed, and what it yielded
Consumed(pid, r, by) ==
    /\ parser' = [parser EXCEPT ![pid] = r.parser]
    /\ emitted' = [emitted EXCEPT ![pid] = @ \o Tagged(r.nodes, by)]
    /\ last_op' = [op |-> by, pid |-> pid]

\* async for node in parser.parse_incremental(text_chunk)
CallParseIncremental(pid, text_chunk) ==
    \E r \in {parse_incremental(parser[pid], text_chunk)} : Consumed(pid, r, "parse_incremental")

\* async for node in parser.finalize()
CallFinalize(pid) ==
    \E r \in {finalize(parser[pid])} : Consumed(pid, r, "finalize")

\* the driver feeds the next k characters of its text to parser pid
FeedFragment(pid, k) ==
    /\ k \in 1..Len(input.rest)
    /\ pid \notin input.finalized
    /\ CallParseIncremental(pid, SubSeq(input.rest, 1, k))
    /\ input' = [input EXCEPT !.rest = SubSeq(@, k + 1, Len(@)), !.calls = @ + 1]
    /\ UNCHANGED SystemVars

\* the driver feeds its whole text to parser pid in one call
FeedWhole(pid) ==
    /\ parser[pid] = NewParser(pid)
    /\ pid \notin input.finalized
    /\ CallParseIncremental(pid, input.text)
    /\ input' = [input EXCEPT !.calls = @ + 1]
    /\ UNCHANGED SystemVars

\* the driver ends the stream of parser pid
FinalizeOnce(pid) ==
    /\ pid \notin input.finalized
    /\ CallFinalize(pid)
    /\ input' = [input EXCEPT !.finalized = @ \cup {pid}, !.calls = @ + 1]
    /\ UNCHANGED SystemVars

ParsersInit(pids) ==
    /\ parser = [pid \in pids |-> NewParser(pid)]
    /\ emitted = [pid \in pids |-> <<>>]
    /\ last_op = [op |-> "init"]

(***************************************************************************)
(* The scenario of the 25-word text fed as two fragments                   *)
(***************************************************************************)
ScenarioText == <<"F","i","r","s","t",","," ","w","e"," ","n","e","e","d"," ","t","o"," ","c","h","e","c","k"," ","t","h","e"," ","b","o","u","n","d","s","."," ","T","h","e","n",","," ","w","e"," ","v","e","r","i","f","y"," ","t","h","e"," ","r","e","s","u","l","t","."," ","T","h","i","s"," ","c","o","n","f","i","r","m","s"," ","t","h","e"," ","l","o","g","i","c","."," ","S","o"," ","w","e"," ","p","r","o","c","e","e","d"," ","w","i","t","h"," ","i","m","p","l","e","m","e","n","t","a","t","i","o","n"," ","o","f"," ","t","h","e"," ","f","i","n","a","l"," ","c","o","d","e",".">>

\* how far from the middle of the text the cut between the two fragments may be
CutSlack == 20

ScenarioCuts ==
    { c \in 1..(Len(ScenarioText) - 1) :
        /\ c >= Len(ScenarioText) \div 2 - CutSlack
        /\ c <= Len(ScenarioText) \div 2 + CutSlack }

P1 == SessionId(1)

P2 == SessionId(2)

ScenarioInit ==
    /\ SystemInit
    /\ ParsersInit({P1})
    /\ \E c \in ScenarioCuts :
         input = [NoInput EXCEPT !.text = ScenarioText, !.rest = ScenarioText, !.cut = c]

FeedFirstHalf ==
    /\ input.rest = input.text
    /\ FeedFragment(P1, input.cut)

FeedSecondHalf ==
    /\ input.rest # input.text
    /\ FeedFragment(P1, Len(input.rest))

FinalizeScenario ==
    /\ input.rest = <<>>
    /\ FinalizeOnce(P1)

ScenarioNext == FeedFirstHalf \/ FeedSecondHalf \/ FinalizeScenario

SpecScenario == ScenarioInit /\ [][ScenarioNext]_vars


(***************************************************************************)
(* A parser driven by any sequence of parse_incremental and finalize calls *)
(***************************************************************************)
\* fragments that end the sentence before them and bring 20 words: two of
\* them keywords; the same with a referential cue; no keyword and no cue;
\* seven keywords, the third of them seven times and a certainty word, with
\* capitals and stop words; nine hedging words. And fragments that end no
\* sentence: one of five characters with a full stop inside and a question
\* mark at its end, one of ten words, one of two spaces
ParserChunks ==
    { <<"."," ","m","a","p"," ","k","e","y"," ","a"," ","a"," ","a"," ","a"," ","a"," ","a"," ","a"," ","a"," ","a"," ","a"," ","a"," ","a"," ","a"," ","a"," ","a"," ","a"," ","a"," ","a">>,
      <<"."," ","t","h","i","s"," ","m","a","p"," ","k","e","y"," ","a"," ","a"," ","a"," ","a"," ","a"," ","a"," ","a"," ","a"," ","a"," ","a"," ","a"," ","a"," ","a"," ","a"," ","a"," ","a"," ","a">>,
      <<"."," ","a"," ","a"," ","a"," ","a"," ","a"," ","a"," ","a"," ","a"," ","a"," ","a"," ","a"," ","a"," ","a"," ","a"," ","a"," ","a"," ","a"," ","a"," ","a"," ","a">>,
      <<"."," ","M","a","p"," ","k","e","y"," ","m","u","s","t"," ","m","u","s","t"," ","k","e","y"," ","T","h","e"," ","m","u","s","t"," ","t","o","o","l"," ","m","u","s","t"," ","k","e","y"," ","m","u","s","t"," ","b","o","l","t"," ","m","u","s","t"," ","n","u","t"," ","r","o","d"," ","m","u","s","t"," ","a","n","d"," ","a"," ","a"," ","a">>,
      <<"."," ","m","a","y","b","e"," ","m","a","y","b","e"," ","m","a","y","b","e"," ","m","a","y","b","e"," ","m","a","y","b","e"," ","m","a","y","b","e"," ","m","a","y","b","e"," ","m","a","y","b","e"," ","m","a","y","b","e"," ","n","u","t"," ","r","o","d"," ","a"," ","a"," ","a"," ","a"," ","a"," ","a"," ","a"," ","a"," ","a">>,
      <<"a","b",".","c","?">>,
      <<"b"," ","b"," ","b"," ","b"," ","b"," ","b"," ","b"," ","b"," ","b"," ","b"," ">>,
      <<" "," ">> }

\* how many calls the driver makes on the parser
MaxCalls == 4

ParserInit ==
    /\ SystemInit
    /\ ParsersInit({P1})
    /\ input = NoInput

FeedChunk ==
    /\ input.calls < MaxCalls
    /\ \E text_chunk \in ParserChunks :
          /\ CallParseIncremental(P1, text_chunk)
          /\ input' = [input EXCEPT !.calls = @ + 1, !.text = @ \o text_chunk]
    /\ UNCHANGED SystemVars

FinalizeAnytime ==
    /\ input.calls < MaxCalls
    /\ CallFinalize(P1)
    /\ input' = [input EXCEPT !.calls = @ + 1]
    /\ UNCHANGED SystemVars

ParserNext == FeedChunk \/ FinalizeAnytime

SpecParser == ParserInit /\ [][ParserNext]_vars

(***************************************************************************)
(* One text through two parsers: whole, and cut into fragments             *)
(***************************************************************************)
\* n one-letter words separated by single spaces
Sentence(n) == [i \in 1..(2 * n - 1) |-> IF i % 2 = 1 THEN "a" ELSE " "]

\* two sentences, of 10 or 20 words and of 5 or 12 words
RoundTripTexts ==
    { Sentence(n1) \o <<".", " ">> \o Sentence(n2) : n1 \in {10, 20}, n2 \in {5, 12} }

\* into how many fragments the text is cut at most
MaxFragments == 3

RoundTripInit ==
    /\ SystemInit
    /\ ParsersInit({P1, P2})
    /\ \E text \in RoundTripTexts :
         input = [NoInput EXCEPT !.text = text, !.rest = text]

\* parser P2 gets the whole text in one call
FeedWholeText ==
    /\ input.calls = 0
    /\ FeedWhole(P2)

FinalizeWhole ==
    /\ parser[P2] # NewParser(P2)
    /\ FinalizeOnce(P2)

\* then parser P1 gets the same text cut into fragments of any size; the two
\* calls on P2 came first, and the last fragment allowed takes all the rest
FeedNextFragment ==
    /\ P2 \in input.finalized
    /\ \E k \in 1..Len(input.rest) :
          /\ (input.calls - 2 < MaxFragments - 1 \/ k = Len(input.rest))
          /\ FeedFragment(P1, k)

FinalizeFragments ==
    /\ P2 \in input.finalized
    /\ input.rest = <<>>
    /\ FinalizeOnce(P1)

RoundTripNext == FeedWholeText \/ FinalizeWhole \/ FeedNextFragment \/ FinalizeFragments

SpecRoundTrip == RoundTripInit /\ [][RoundTripNext]_vars

(***************************************************************************)
(* A parser that builds nodes from any sequence of segments: the call that *)
(* the loops of parse_incremental and finalize make for each segment       *)
(***************************************************************************)
\* segments: one of nine characters; one with "check" three times, "implement"
\* and "code" once each and the cue "that"; one whose three keywords are of
\* three types, with the cue "so"; one with a first-person belief phrase, a
\* certainty word, a question mark and the cue "this", and no keyword of any
\* type; one with three hedging words, no cue and the one keyword "or"
NodeSegments ==
    { <<"t","o","o"," ","s","h","o","r","t">>,
      <<"c","h","e","c","k"," ","t","h","a","t"," ","c","h","e","c","k"," ","a","n","d"," ","c","h","e","c","k",","," ","i","m","p","l","e","m","e","n","t"," ","t","h","e"," ","c","o","d","e">>,
      <<"s","o"," ","w","e"," ","s","h","o","u","l","d"," ","t","e","s","t"," ","t","h","e"," ","m","a","p"," ","k","e","y"," ","c","o","d","e">>,
      <<"I"," ","t","h","i","n","k"," ","t","h","i","s"," ","m","a","p"," ","k","e","y"," ","i","s"," ","r","i","g","h","t","?">>,
      <<"m","a","y","b","e"," ","t","h","e"," ","b","o","l","t"," ","o","r"," ","n","u","t"," ","i","s"," ","f","a","i","r","l","y"," ","v","a","g","u","e">> }

\* how many segments the parser gets
MaxNodes == 5

\* node = self._create_node_from_segment(segment)
CreateNode ==
    /\ input.calls < MaxNodes
    /\ \E segment \in NodeSegments :
          /\ \E r \in {_create_node_from_segment(parser[P1], segment)} :
                 Consumed(P1, r, "_create_node_from_segment")
          /\ input' = [input EXCEPT !.calls = @ + 1, !.text = segment]
    /\ UNCHANGED SystemVars

SpecNodes == ParserInit /\ [][CreateNode]_vars

(***************************************************************************)
(* app/config.py                                                           *)
(***************************************************************************)
session_cleanup_hours == 1

max_concurrent_sessions_per_ip == 3

(***************************************************************************)
(* app/services/session_manager.py                                         *)
(* A manager is the record [sessions, ip_sessions]; the clock counts hours.*)
(***************************************************************************)
\* Python's None, where a text is expected
None == <<"None">>

\* str(n) for a natural number n
RECURSIVE IntText(_)
IntText(n) ==
    IF n < 10 THEN << <<"0","1","2","3","4","5","6","7","8","9">>[n + 1] >>
    ELSE IntText(n \div 10) \o IntText(n % 10)

\* Session.__init__
Session(session_id, ip_address, utcnow) ==
    [ session_id    |-> session_id,
      ip_address    |-> ip_address,
      status        |-> "initializing",
      created_at    |-> utcnow,
      thought_nodes |-> <<>>,
      tokens_used   |-> 0,
      problem_text  |-> <<>>,
      solution_text |-> <<>>,
      error_message |-> None ]

\* a variant that stores a new session under an id it does not find
update_session_Create(S, session_id, kwargs) ==
    LET session == IF session_id \in DOMAIN S THEN S[session_id]
                   ELSE Session(session_id, None, 0)
    IN  DictSet(S, session_id,
                [key \in DOMAIN session |->
                     IF key \in DOMAIN kwargs THEN kwargs[key] ELSE session[key]])

\* setattr(session, key, value) for every key of kwargs the session has
update_session(S, session_id, kwargs) ==
    IF session_id \notin DOMAIN S THEN S
    ELSE [S EXCEPT ![session_id] =
             [key \in DOMAIN @ |-> IF key \in DOMAIN kwargs THEN kwargs[key] ELSE @[key]]]

add_thought_node(S, session_id, thought_node) ==
    IF session_id \in DOMAIN S
    THEN [S EXCEPT ![session_id].thought_nodes = Append(@, thought_node)]
    ELSE S

\* the loop that keeps the ids of sessions that exist and are not terminal
RECURSIVE ActiveLoop(_, _, _)
ActiveLoop(S, ids, active) ==
    IF ids = <<>> THEN active
    ELSE IF Head(ids) \in DOMAIN S /\ S[Head(ids)].status \notin {"completed", "error"}
         THEN ActiveLoop(S, Tail(ids), Append(active, Head(ids)))
         ELSE ActiveLoop(S, Tail(ids), active)

\* returns the active ids and the manager with the ip's list rewritten
_get_active_sessions_for_ip(m, ip_address) ==
    LET \* self.ip_sessions.get(ip_address, [])
        ids    == IF ip_address \in DOMAIN m.ip_sessions
                  THEN m.ip_sessions[ip_address] ELSE <<>>
        active == ActiveLoop(m.sessions, ids, <<>>)
    IN  [ active  |-> active,
          manager |-> IF ip_address \in DOMAIN m.ip_sessions
                      THEN [m EXCEPT !.ip_sessions[ip_address] = active]
                      ELSE m ]

\* the message of the exception create_session raises
RateLimitMessage ==
    <<"R","a","t","e"," ","l","i","m","i","t"," ","e","x","c","e","e","d","e","d",":"," ","M","a","x","i","m","u","m"," ">> \o IntText(max_concurrent_sessions_per_ip)
        \o <<" ","c","o","n","c","u","r","r","e","n","t"," ","s","e","s","s","i","o","n","s"," ","p","e","r"," ","I","P">>

\* a variant that stores the session before it checks the limit
create_session_StoreFirst(m, ip_address, utcnow, uuid) ==
    LET a          == _get_active_sessions_for_ip(m, ip_address)
        session_id == SessionId(uuid)
        stored     == [ sessions    |-> DictSet(a.manager.sessions, session_id,
                                                Session(session_id, ip_address, utcnow)),
                        ip_sessions |-> DictSet(a.manager.ip_sessions, ip_address,
                                                Append(a.active, session_id)) ]
    IN  IF Len(a.active) >= max_concurrent_sessions_per_ip
        THEN [raised |-> TRUE, error |-> RateLimitMessage, manager |-> stored,
              session_id |-> None]
        ELSE [raised |-> FALSE, error |-> <<>>, manager |-> stored,
              session_id |-> session_id]

\* a variant whose limit test is off by one
create_session_OffByOne(m, ip_address, utcnow, uuid) ==
    LET a          == _get_active_sessions_for_ip(m, ip_address)
        session_id == SessionId(uuid)
    IN  IF Len(a.active) > max_concurrent_sessions_per_ip
        THEN [raised |-> TRUE, error |-> RateLimitMessage, manager |-> a.manager,
              session_id |-> None]
        ELSE [raised |-> FALSE, error |-> <<>>, session_id |-> session_id,
              manager |->
                [ sessions    |-> DictSet(a.manager.sessions, session_id,
                                          Session(session_id, ip_address, utcnow)),
                  ip_sessions |-> DictSet(a.manager.ip_sessions, ip_address,
                                          Append(a.active, session_id)) ]]

\* returns the manager after the call and either the new session's id or the
\* exception raised; uuid stands for the uuid4 drawn
create_session(m, ip_address, utcnow, uuid) ==
    LET a          == _get_active_sessions_for_ip(m, ip_address)
        session_id == SessionId(uuid)
    IN  IF Len(a.active) >= max_concurrent_sessions_per_ip
        THEN [raised |-> TRUE, error |-> RateLimitMessage, manager |-> a.manager,
              session_id |-> None]
        ELSE [raised |-> FALSE, error |-> <<>>, session_id |-> session_id,
              manager |->
                [ sessions    |-> DictSet(a.manager.sessions, session_id,
                                          Session(session_id, ip_address, utcnow)),
                  ip_sessions |-> DictSet(a.manager.ip_sessions, ip_address,
                                          Append(a.active, session_id)) ]]

\* list.remove(x): the list without the first occurrence of x
RemoveFirst(list, x) ==
    LET at == { i \in 1..Len(list) : list[i] = x }
    IN  IF at = {} THEN list
        ELSE LET i == CHOOSE i \in at : \A j \in at : i <= j
             IN  SubSeq(list, 1, i - 1) \o SubSeq(list, i + 1, Len(list))

\* the keys of the session dict in insertion order: the order the ids were drawn
SessionsInOrder(S) ==
    LET numbers == SortedSeq({ session_id[2] : session_id \in DOMAIN S })
    IN  [i \in 1..Len(numbers) |-> SessionId(numbers[i])]

\* a variant that also sweeps the sessions created exactly at the cutoff
SessionsToRemove_AtCutoff(S, utcnow) ==
    SelectSeq(SessionsInOrder(S),
              LAMBDA session_id : S[session_id].created_at <= utcnow - session_cleanup_hours)

\* the sessions a sweep at utcnow removes
SessionsToRemove(S, utcnow) ==
    SelectSeq(SessionsInOrder(S),
              LAMBDA session_id : S[session_id].created_at < utcnow - session_cleanup_hours)

\* the loop that removes the sessions, each from its ip's list and from the dict
RECURSIVE RemoveLoop(_, _)
RemoveLoop(m, sessions_to_remove) ==
    IF sessions_to_remove = <<>> THEN m
    ELSE LET session_id == Head(sessions_to_remove)
             ip_address == m.sessions[session_id].ip_address
             tracked    == IF ip_address \in DOMAIN m.ip_sessions
                           THEN [m.ip_sessions EXCEPT ![ip_address] = RemoveFirst(@, session_id)]
                           ELSE m.ip_sessions
         IN  RemoveLoop([ sessions    |-> DictRemove(m.sessions, session_id),
                          ip_sessions |-> tracked ],
                        Tail(sessions_to_remove))

\* returns the manager after the sweep and the number the call returns
cleanup_old_sessions(m, utcnow) ==
    LET sessions_to_remove == SessionsToRemove(m.sessions, utcnow)
    IN  [ manager  |-> RemoveLoop(m, sessions_to_remove),
          returned |-> Len(sessions_to_remove) ]

(***************************************************************************)
(* app/services/websocket_manager.py                                       *)
(* active_connections maps a session id to its list object: items are the  *)
(* websockets in it, id tells one list object from another (the websocket  *)
(* whose connect created it).                                              *)
(***************************************************************************)
\* connect, after the accept: the registration
register(A, session_id, websocket) ==
    IF session_id \notin DOMAIN A
    THEN DictSet(A, session_id, [id |-> websocket, items |-> <<websocket>>])
    ELSE [A EXCEPT ![session_id].items = Append(@, websocket)]

\* a variant that leaves the list in the dict when it has become empty
disconnect_KeepEmpty(A, session_id, websocket) ==
    IF session_id \in DOMAIN A
    THEN [A EXCEPT ![session_id].items = RemoveFirst(@, websocket)]
    ELSE A

disconnect(A, session_id, websocket) ==
    IF session_id \in DOMAIN A
    THEN LET items == RemoveFirst(A[session_id].items, websocket)
         IN  IF items = <<>> THEN DictRemove(A, session_id)
             ELSE [A EXCEPT ![session_id].items = items]
    ELSE A

\* the confirmation connect sends
ConnectedMessage(session_id) ==
    [ event_type |-> "connected",
      session_id |-> session_id,
      message    |-> "Connected to thinking stream" ]

\* WebSocketEvent(...).model_dump(mode='json'), without its timestamp
WebSocketEvent(event_type, session_id, data) ==
    [ event_type |-> event_type, session_id |-> session_id, data |-> data ]

\* no broadcast call is suspended
NoBroadcast == [active |-> FALSE]

\* the frame of a broadcast call suspended in send_json: the message, the list
\* object the for loop iterates and the loop's index in it, the connection
\* being sent to and the failed ones. For the record of the call: who was
\* registered when it started, who got the message, and whether another task
\* removed a subscriber of the list meanwhile.
BroadcastFrame(message, list) ==
    [ active       |-> TRUE,
      message      |-> message,
      list_id      |-> list.id,
      index        |-> 1,
      connection   |-> list.items[1],
      disconnected |-> <<>>,
      registered   |-> list.items,
      sent         |-> <<>>,
      disturbed    |-> FALSE ]

\* the list the suspended loop iterates, as it is now: a list object that was
\* deleted from the dict was empty then and stays empty
IteratedList(w) ==
    LET A          == w.active_connections
        session_id == w.t.session_id
    IN  IF session_id \in DOMAIN A /\ A[session_id].id = w.t.bc.list_id
        THEN A[session_id].items
        ELSE <<>>

\* a variant in which the connection gets the message twice
on_send_returned_Twice(w) ==
    [w EXCEPT !.delivered[w.t.bc.connection] = Append(Append(@, w.t.bc.message), w.t.bc.message),
              !.t.bc.sent = Append(@, w.t.bc.connection)]

\* await connection.send_json(message) returned
on_send_returned(w) ==
    [w EXCEPT !.delivered[w.t.bc.connection] = Append(@, w.t.bc.message),
              !.t.bc.sent = Append(@, w.t.bc.connection)]

\* a variant that unregisters the failed connection at once, inside the loop
on_send_failure_RemoveNow(w) ==
    [w EXCEPT !.t.bc.disconnected = Append(@, w.t.bc.connection),
              !.active_connections = disconnect(@, w.t.session_id, w.t.bc.connection)]

\* a variant without the try around send_json: the exception of a failed send
\* leaves the loop and goes up to the except clause of run_analysis
on_send_failure_Raise(w) ==
    [w EXCEPT !.t.bc.index = Len(IteratedList(w)),
              !.t.pending = <<>>,
              !.t.error_msg = <<"s","e","n","d"," ","f","a","i","l","e","d">>,
              !.t.ret = "raise"]

\* await connection.send_json(message) raised: mark for removal
on_send_failure(w) ==
    [w EXCEPT !.t.bc.disconnected = Append(@, w.t.bc.connection)]

\* the clean-up loop over disconnected
RECURSIVE DisconnectAll(_, _, _)
DisconnectAll(A, session_id, disconnected) ==
    IF disconnected = <<>> THEN A
    ELSE DisconnectAll(disconnect(A, session_id, Head(disconnected)),
                       session_id, Tail(disconnected))

\* the record of a broadcast call that returned
EndedBroadcast(b, A, session_id) ==
    [ active       |-> TRUE,
      session_id   |-> session_id,
      message      |-> b.message,
      registered   |-> b.registered,
      sent         |-> b.sent,
      disconnected |-> b.disconnected,
      disturbed    |-> b.disturbed,
      after        |-> IF session_id \in DOMAIN A THEN A[session_id].items ELSE <<>> ]

(***************************************************************************)
(* app/api/routes.py run_analysis, with the analyze_problem it awaits      *)
(* (app/services/anthropic_client.py).                                     *)
(* A task runs without interruption from one await that suspends it to the *)
(* next: waiting for the next stream event, or for a send_json to return.  *)
(* An operator below takes the world w the task sees (the session dict, the*)
(* subscriber map, what each websocket received, the task's own frame t)   *)
(* and returns the world at the task's next suspension.                    *)
(***************************************************************************)
\* the background task as queued by start_analysis
NewTask(session_id, problem_text) ==
    [ session_id    |-> session_id,
      problem_text  |-> problem_text,
      pc            |-> "queued",
      parser        |-> NewParser(session_id),
      pending       |-> <<>>,       \* nodes the running generator still yields
      ret           |-> "none",     \* where the task goes on when the loop is done
      bc            |-> NoBroadcast,
      events        |-> 0,          \* stream events consumed
      full_solution |-> <<>>,
      solution_text |-> <<>>,       \* result['solution_text']
      output_tokens |-> 0,          \* result['usage']['output_tokens']
      thought_count |-> 0,          \* len(session.thought_nodes) of line 142
      error_msg     |-> <<>>,
      failed        |-> FALSE,      \* the except clause of run_analysis was entered
      published     |-> <<>> ]      \* the broadcast calls made, in order

\* the text of an exception raised by the stream
StreamErrorText == <<"s","t","r","e","a","m"," ","f","a","i","l","e","d">>

RECURSIVE Resume(_)
RECURSIVE broadcast(_, _, _)

\* a variant that reads len(session.thought_nodes) without testing the session:
\* on a missing session the AttributeError takes the task to its except clause
Complete_Unguarded(w) ==
    LET session_id == w.t.session_id
        S == update_session(w.sessions, session_id,
                            [status |-> "completed", tokens_used |-> w.t.output_tokens])
    IN  IF session_id \in DOMAIN S
        THEN broadcast([w EXCEPT !.sessions = S,
                                 !.t.thought_count = Len(S[session_id].thought_nodes),
                                 !.t.ret = "thinking_complete"],
                       "thinking_complete",
                       [total_thoughts |-> Len(S[session_id].thought_nodes),
                        total_tokens |-> w.t.output_tokens])
        ELSE broadcast([w EXCEPT !.t.failed = TRUE, !.t.ret = "end",
                                 !.t.error_msg = <<"'","N","o","n","e","T","y","p","e","'"," ","o","b","j","e","c","t"," ","h","a","s"," ","n","o"," ","a","t","t","r","i","b","u","t","e"," ","'","t","h","o","u","g","h","t","_","n","o","d","e","s","'">>],
                       "error",
                       [error_message |-> <<"'","N","o","n","e","T","y","p","e","'"," ","o","b","j","e","c","t"," ","h","a","s"," ","n","o"," ","a","t","t","r","i","b","u","t","e"," ","'","t","h","o","u","g","h","t","_","n","o","d","e","s","'">>,
                        error_type |-> "analysis_error"])

\* lines 131-151: the session is completed, thinking_complete is broadcast
Complete(w) ==
    LET session_id == w.t.session_id
        S == update_session(w.sessions, session_id,
                            [status |-> "completed", tokens_used |-> w.t.output_tokens])
        \* len(session.thought_nodes) if session else 0
        total == IF session_id \in DOMAIN S THEN Len(S[session_id].thought_nodes) ELSE 0
    IN  broadcast([w EXCEPT !.sessions = S, !.t.thought_count = total,
                            !.t.ret = "thinking_complete"],
                  "thinking_complete",
                  [total_thoughts |-> total, total_tokens |-> w.t.output_tokens])

\* lines 153-161: solution_ready is broadcast if there is a solution text
SolutionReady(w) ==
    IF w.t.solution_text # <<>>
    THEN broadcast([w EXCEPT !.t.ret = "end"],
                   "solution_ready",
                   [solution_text |-> w.t.solution_text,
                    thinking_node_count |-> w.t.thought_count])
    ELSE Resume([w EXCEPT !.t.ret = "end"])

\* a variant of the except clause that broadcasts the error but leaves the
\* session as it is
Except_Unrecorded(w) ==
    broadcast([w EXCEPT !.t.failed = TRUE, !.t.ret = "end"],
              "error",
              [error_message |-> w.t.error_msg, error_type |-> "analysis_error"])

\* lines 163-171: the except clause of run_analysis
Except(w) ==
    LET S == update_session(w.sessions, w.t.session_id,
                            [status |-> "error", error_message |-> w.t.error_msg])
    IN  broadcast([w EXCEPT !.sessions = S, !.t.failed = TRUE, !.t.ret = "end"],
                  "error",
                  [error_message |-> w.t.error_msg, error_type |-> "analysis_error"])

\* a variant that broadcasts the node and does not store it
StoreAndBroadcast_Unstored(w) ==
    LET thought_node == Head(w.t.pending)
    IN  broadcast([w EXCEPT !.t.pending = Tail(@)], "new_thought", thought_node)

\* the body of the async for over the nodes a generator yields: the node is
\* stored in the session, then broadcast
StoreAndBroadcast(w) ==
    LET thought_node == Head(w.t.pending)
    IN  broadcast([w EXCEPT !.sessions = add_thought_node(@, w.t.session_id, thought_node),
                            !.t.pending = Tail(@)],
                  "new_thought", thought_node)

\* the task goes on after a broadcast returned, or after a callback that
\* awaits nothing
Resume(w) ==
    IF w.t.pending # <<>> THEN StoreAndBroadcast(w)
    ELSE CASE w.t.ret = "stream"            -> [w EXCEPT !.t.pc = "await_event"]
           [] w.t.ret = "finalized"         -> Complete(w)
           [] w.t.ret = "thinking_complete" -> SolutionReady(w)
           [] w.t.ret = "raise"             -> Except(w)
           [] OTHER                         -> [w EXCEPT !.t.pc = "cleanup"]

\* WebSocketManager.broadcast up to its first await, or to its return if the
\* session has no subscriber
broadcast(w, event_type, data) ==
    LET session_id == w.t.session_id
        called == [w EXCEPT !.t.published =
                                Append(@, [event_type |-> event_type, data |-> data])]
    IN  IF session_id \notin DOMAIN w.active_connections
        THEN Resume(called)
        ELSE [called EXCEPT
                 !.t.pc = "await_send",
                 !.t.bc = BroadcastFrame(WebSocketEvent(event_type, session_id, data),
                                         w.active_connections[session_id])]

\* the for loop of broadcast after a send returned or raised: the next
\* connection of the list, or the clean-up and the return to the caller
NextConnection(w) ==
    LET b     == w.t.bc
        items == IteratedList(w)
    IN  IF b.index < Len(items)
        THEN [w EXCEPT !.t.bc.index = @ + 1, !.t.bc.connection = items[b.index + 1]]
        ELSE LET A == DisconnectAll(w.active_connections, w.t.session_id, b.disconnected)
             IN  Resume([w EXCEPT !.active_connections = A,
                                  !.t.bc = NoBroadcast,
                                  !.ended = EndedBroadcast(b, A, w.t.session_id)])

\* run_analysis from its start to the first await of analyze_problem
run_analysis(w) ==
    [w EXCEPT !.sessions = update_session(@, w.t.session_id,
                               [status |-> "streaming", problem_text |-> w.t.problem_text]),
              !.t.pc = "await_event"]

\* a thinking_delta event: the chunk goes through on_thinking_chunk
on_thinking_delta(w, chunk) ==
    Bind(parse_incremental(w.t.parser, chunk), LAMBDA r :
        Resume([w EXCEPT !.t.parser = r.parser, !.t.pending = r.nodes,
                         !.t.ret = "stream", !.t.events = @ + 1]))

\* a text_delta event
on_text_delta(w, chunk) ==
    [w EXCEPT !.t.full_solution = @ \o chunk, !.t.events = @ + 1]

\* a variant that marks the session failed and then carries on as if the
\* stream had ended
on_stream_failure_CarryOn(w) ==
    Bind(finalize(w.t.parser), LAMBDA r :
        Resume([w EXCEPT !.sessions = update_session(@, w.t.session_id, [status |-> "error"]),
                         !.t.parser = r.parser, !.t.pending = r.nodes,
                         !.t.ret = "finalized"]))

\* the stream raises: on_error, then the exception goes up to run_analysis
on_stream_failure(w) ==
    LET error_msg == <<"A","n","t","h","r","o","p","i","c"," ","A","P","I"," ","e","r","r","o","r",":"," ">> \o StreamErrorText
    IN  broadcast([w EXCEPT !.t.ret = "raise", !.t.error_msg = error_msg],
                  "error",
                  [error_message |-> error_msg, error_type |-> "api_error"])

\* a variant that completes the session first and runs the finalize loop after
\* thinking_complete was broadcast
FinalizeLoop_Late(w) ==
    Bind(finalize(w.t.parser), LAMBDA r :
        Complete([w EXCEPT !.t.parser = r.parser, !.t.pending = r.nodes]))

\* the parser's finalize loop of run_analysis, lines 125-129
FinalizeLoop(w) ==
    Bind(finalize(w.t.parser), LAMBDA r :
        Resume([w EXCEPT !.t.parser = r.parser, !.t.pending = r.nodes,
                         !.t.ret = "finalized"]))

\* the stream ends and the final message arrives: on_solution, the result,
\* then back in run_analysis
on_stream_end(w, output_tokens) ==
    LET S == IF w.t.full_solution # <<>>
             THEN update_session(w.sessions, w.t.session_id,
                                 [solution_text |-> w.t.full_solution])
             ELSE w.sessions
    IN  FinalizeLoop([w EXCEPT !.sessions = S,
                               !.t.solution_text = w.t.full_solution,
                               !.t.output_tokens = output_tokens])

\* a variant in which the exception leaves analyze_problem
on_chunk_error_Raise(w) ==
    broadcast([w EXCEPT !.t.ret = "raise", !.t.events = @ + 1,
                        !.t.error_msg = <<"E","r","r","o","r"," ","p","r","o","c","e","s","s","i","n","g"," ","s","t","r","e","a","m"," ","c","h","u","n","k",":"," ","b","a","d"," ","e","v","e","n","t">>],
              "error",
              [error_message |-> <<"E","r","r","o","r"," ","p","r","o","c","e","s","s","i","n","g"," ","s","t","r","e","a","m"," ","c","h","u","n","k",":"," ","b","a","d"," ","e","v","e","n","t">>,
               error_type    |-> "api_error"])

\* an event whose processing raises, here with the text "bad event": the inner
\* except clause calls on_error, then the loop over the stream continues
on_chunk_error(w) ==
    broadcast([w EXCEPT !.t.ret = "stream", !.t.events = @ + 1],
              "error",
              [error_message |-> <<"E","r","r","o","r"," ","p","r","o","c","e","s","s","i","n","g"," ","s","t","r","e","a","m"," ","c","h","u","n","k",":"," ","b","a","d"," ","e","v","e","n","t">>,
               error_type    |-> "api_error"])

(***************************************************************************)
(* Steps of the server: requests, background tasks, websocket endpoints    *)
(***************************************************************************)
\* the world the task of a session sees
World(session_id) ==
    [ sessions           |-> sessions,
      active_connections |-> active_connections,
      delivered          |-> delivered,
      t                  |-> task[session_id],
      ended              |-> NoBroadcast ]

\* the task of a session ran from one suspension to the next
TaskStep(session_id, w) ==
    /\ sessions' = w.sessions
    /\ active_connections' = w.active_connections
    /\ delivered' = w.delivered
    /\ task' = [task EXCEPT ![session_id] = w.t]
    /\ last_op' = [op |-> "run_analysis", ended |-> w.ended]
    /\ UNCHANGED <<ip_sessions, now, next_id, response, ws, ParserVars>>

\* the problem statement of a request
ProblemText == <<"a"," ","p","r","o","b","l","e","m",".">>

\* start_analysis: the manager after the call, the response, and whether
\* run_analysis was queued as a background task
start_analysis(m, ip_address, utcnow, uuid) ==
    LET r == create_session(m, ip_address, utcnow, uuid)
    IN  IF r.raised
        THEN [ manager     |-> r.manager,
               queued      |-> FALSE,
               session_id  |-> r.session_id,
               status_code |-> IF Contains(r.error, <<"R","a","t","e"," ","l","i","m","i","t">>) THEN 429 ELSE 500,
               detail      |-> IF Contains(r.error, <<"R","a","t","e"," ","l","i","m","i","t">>) THEN r.error
                               ELSE <<"F","a","i","l","e","d"," ","t","o"," ","s","t","a","r","t"," ","a","n","a","l","y","s","i","s",":"," ">> \o r.error ]
        ELSE [ manager     |-> r.manager,
               queued      |-> TRUE,
               session_id  |-> r.session_id,
               status_code |-> 200,
               detail      |-> <<>> ]

\* POST /api/analyze from ip_address
StartAnalysis(ip_address) ==
    \E r \in {start_analysis([sessions |-> sessions, ip_sessions |-> ip_sessions],
                             ip_address, now, next_id)} :
        /\ sessions' = r.manager.sessions
        /\ ip_sessions' = r.manager.ip_sessions
        /\ response' = [ op |-> "start_analysis", status_code |-> r.status_code,
                         detail |-> r.detail, session_id |-> r.session_id ]
        /\ IF r.queued
           THEN /\ task' = DictSet(task, r.session_id, NewTask(r.session_id, ProblemText))
                /\ next_id' = next_id + 1
           ELSE UNCHANGED <<task, next_id>>
        /\ last_op' = [op |-> "start_analysis"]
        /\ UNCHANGED <<now, active_connections, ws, delivered, ParserVars>>

\* the second background task of the request: the sweep
CleanupTask(session_id) ==
    /\ task[session_id].pc = "cleanup"
    /\ \E r \in {cleanup_old_sessions([sessions |-> sessions, ip_sessions |-> ip_sessions],
                                      now)} :
        /\ sessions' = r.manager.sessions
        /\ ip_sessions' = r.manager.ip_sessions
        /\ last_op' = [op |-> "cleanup_old_sessions", returned |-> r.returned]
    /\ task' = [task EXCEPT ![session_id].pc = "done"]
    /\ UNCHANGED <<now, next_id, response, active_connections, ws, delivered, ParserVars>>

(***************************************************************************)
(* Steps of the server. A run_analysis task steps from one await to the    *)
(* next; a websocket_endpoint task (app/api/websocket.py) steps from       *)
(* accept to the confirmation, to receive_text, to its finally clause.     *)
(***************************************************************************)
\* how many stream events a pipeline consumes before the stream ends or fails
MaxEvents == 2

\* the websockets that may connect, in the order in which they open
Sockets == <<"ws1", "ws2">>

\* the thinking text arrives in chunks of two sentences of 20 words
ThinkingChunks == {Sentence(20) \o <<".", " ">> \o Sentence(20) \o <<".", " ">>}

\* the solution text arrives in chunks
SolutionChunks == {<<"4","2">>}

\* the output_tokens of the final message
TokenCounts == {7}

\* the managers as constructed; no parser is driven from outside a pipeline
ServerInit ==
    /\ SystemInit
    /\ parser = EmptyDict
    /\ emitted = EmptyDict
    /\ input = NoInput
    /\ last_op = [op |-> "init"]

\* one POST /api/analyze
AnalyzeOnce ==
    /\ next_id = 1
    /\ StartAnalysis("ip1")

\* a background task run_analysis starts
TaskStarts ==
    \E session_id \in DOMAIN task :
        /\ task[session_id].pc = "queued"
        /\ \E w \in {run_analysis(World(session_id))} : TaskStep(session_id, w)

\* the stream delivers a thinking_delta
ThinkingArrives ==
    \E session_id \in DOMAIN task, chunk \in ThinkingChunks :
        /\ task[session_id].pc = "await_event"
        /\ task[session_id].events < MaxEvents
        /\ \E w \in {on_thinking_delta(World(session_id), chunk)} : TaskStep(session_id, w)

\* the stream delivers a text_delta
SolutionArrives ==
    \E session_id \in DOMAIN task, chunk \in SolutionChunks :
        /\ task[session_id].pc = "await_event"
        /\ task[session_id].events < MaxEvents
        /\ \E w \in {on_text_delta(World(session_id), chunk)} : TaskStep(session_id, w)

\* the stream ends
StreamEnds ==
    \E session_id \in DOMAIN task, output_tokens \in TokenCounts :
        /\ task[session_id].pc = "await_event"
        /\ \E w \in {on_stream_end(World(session_id), output_tokens)} :
               TaskStep(session_id, w)

\* the stream raises
StreamFails ==
    \E session_id \in DOMAIN task :
        /\ task[session_id].pc = "await_event"
        /\ \E w \in {on_stream_failure(World(session_id))} : TaskStep(session_id, w)

\* the send_json a broadcast awaits returns: the client is there
SendSucceeds ==
    \E session_id \in DOMAIN task :
        /\ task[session_id].pc = "await_send"
        /\ ~ws[task[session_id].bc.connection].gone
        /\ \E w \in {NextConnection(on_send_returned(World(session_id)))} :
               TaskStep(session_id, w)

\* the send_json a broadcast awaits raises: the client is gone
SendFails ==
    \E session_id \in DOMAIN task :
        /\ task[session_id].pc = "await_send"
        /\ ws[task[session_id].bc.connection].gone
        /\ \E w \in {NextConnection(on_send_failure(World(session_id)))} :
               TaskStep(session_id, w)

\* the sweep queued behind a run_analysis runs
Sweep == \E session_id \in DOMAIN task : CleanupTask(session_id)

\* the analysis has not ended
Watching == \A session_id \in DOMAIN task : task[session_id].pc \notin {"cleanup", "done"}

\* a client opens /ws/{session_id}: the endpoint awaits websocket.accept()
ClientOpens ==
    \E i \in 1..Len(Sockets) :
        /\ Watching
        /\ Sockets[i] \notin DOMAIN ws
        /\ \A j \in 1..(i - 1) : Sockets[j] \in DOMAIN ws
        /\ ws' = DictSet(ws, Sockets[i],
                         [session_id |-> SessionId(1), pc |-> "accept", gone |-> FALSE])
        /\ delivered' = DictSet(delivered, Sockets[i], <<>>)
        /\ last_op' = [op |-> "websocket_endpoint"]
        /\ UNCHANGED <<sessions, ip_sessions, now, next_id, response, active_connections,
                       task, ParserVars>>

\* accept returns: connect registers the websocket and awaits the send of its
\* confirmation
ClientAccepted ==
    \E websocket \in DOMAIN ws :
        /\ ws[websocket].pc = "accept"
        /\ ws' = [ws EXCEPT ![websocket].pc = "greet"]
        /\ active_connections' =
               register(active_connections, ws[websocket].session_id, websocket)
        /\ last_op' = [op |-> "websocket_endpoint"]
        /\ UNCHANGED <<sessions, ip_sessions, now, next_id, response, delivered, task,
                       ParserVars>>

\* send_personal_message returns: the endpoint awaits receive_text
ClientGreeted ==
    \E websocket \in DOMAIN ws :
        /\ ws[websocket].pc = "greet"
        /\ ws' = [ws EXCEPT ![websocket].pc = "receive"]
        /\ delivered' = [delivered EXCEPT ![websocket] =
                             Append(@, ConnectedMessage(ws[websocket].session_id))]
        /\ last_op' = [op |-> "websocket_endpoint"]
        /\ UNCHANGED <<sessions, ip_sessions, now, next_id, response, active_connections,
                       task, ParserVars>>

\* a client whose endpoint awaits receive_text goes away: from now on a send
\* to it raises
ClientGoes ==
    \E websocket \in DOMAIN ws :
        /\ Watching
        /\ ws[websocket].pc = "receive"
        /\ ~ws[websocket].gone
        /\ ws' = [ws EXCEPT ![websocket].gone = TRUE]
        /\ last_op' = [op |-> "websocket_endpoint"]
        /\ UNCHANGED <<sessions, ip_sessions, now, next_id, response, active_connections,
                       delivered, task, ParserVars>>

\* a broadcast of the session is suspended and the websocket is in the list
\* it iterates
InSuspendedBroadcast(websocket, session_id) ==
    /\ session_id \in DOMAIN task
    /\ task[session_id].bc.active
    /\ session_id \in DOMAIN active_connections
    /\ active_connections[session_id].id = task[session_id].bc.list_id
    /\ websocket \in SeqToSet(active_connections[session_id].items)

\* receive_text raises WebSocketDisconnect: the finally clause unregisters the
\* websocket. A broadcast suspended on the same list is marked as disturbed.
ClientDisconnected ==
    \E websocket \in DOMAIN ws :
        /\ ws[websocket].pc = "receive"
        /\ ws[websocket].gone
        /\ ws' = [ws EXCEPT ![websocket].pc = "closed"]
        /\ active_connections' =
               disconnect(active_connections, ws[websocket].session_id, websocket)
        /\ task' = IF InSuspendedBroadcast(websocket, ws[websocket].session_id)
                   THEN [task EXCEPT ![ws[websocket].session_id].bc.disturbed = TRUE]
                   ELSE task
        /\ last_op' = [op |-> "websocket_endpoint"]
        /\ UNCHANGED <<sessions, ip_sessions, now, next_id, response, delivered, ParserVars>>

(***************************************************************************)
(* One analysis and its subscribers                                        *)
(***************************************************************************)
PipelineNext ==
    \/ AnalyzeOnce
    \/ TaskStarts
    \/ ThinkingArrives
    \/ SolutionArrives
    \/ StreamEnds
    \/ StreamFails
    \/ SendSucceeds
    \/ SendFails
    \/ ClientOpens
    \/ ClientAccepted
    \/ ClientGreeted
    \/ ClientGoes
    \/ ClientDisconnected

SpecPipeline == ServerInit /\ [][PipelineNext]_vars

(***************************************************************************)
(* Several analyses from several addresses, and the sweeps                 *)
(***************************************************************************)
\* how many sessions are created; a request beyond that number is made only
\* from an address that is at its limit
MaxSessions == 3

\* how many hours pass
MaxHours == 2

Addresses == {"ip1", "ip2"}

\* the address has as many active sessions as it may have
AtLimit(ip_address) ==
    Len(_get_active_sessions_for_ip([sessions |-> sessions, ip_sessions |-> ip_sessions],
                                    ip_address).active) >= max_concurrent_sessions_per_ip

\* POST /api/analyze from one of the addresses
Analyze ==
    \E ip_address \in Addresses :
        /\ next_id <= MaxSessions \/ AtLimit(ip_address)
        /\ StartAnalysis(ip_address)

\* an hour passes
HourPasses ==
    /\ now < MaxHours
    /\ now' = now + 1
    /\ last_op' = [op |-> "tick"]
    /\ UNCHANGED <<sessions, ip_sessions, next_id, response, active_connections, ws,
                   delivered, task, ParserVars>>

SessionsNext ==
    \/ Analyze
    \/ TaskStarts
    \/ StreamEnds
    \/ StreamFails
    \/ Sweep
    \/ HourPasses

SpecSessions == ServerInit /\ [][SessionsNext]_vars

(***************************************************************************)
(* Two analyses without subscribers, and the sweeps: the sweep queued      *)
(* behind one analysis can remove the session of the other mid-stream      *)
(***************************************************************************)
\* how many sessions are created
MaxSwept == 2

\* POST /api/analyze, at most MaxSwept times
AnalyzeTwice ==
    /\ next_id <= MaxSwept
    /\ StartAnalysis("ip1")

SweepNext ==
    \/ AnalyzeTwice
    \/ TaskStarts
    \/ ThinkingArrives
    \/ SolutionArrives
    \/ StreamEnds
    \/ StreamFails
    \/ Sweep
    \/ HourPasses

SpecSweep == ServerInit /\ [][SweepNext]_vars

(***************************************************************************)
(* One analysis and its subscribers, under fair scheduling: the event loop *)
(* starts a queued task and resumes a task whose await is done. A send_json*)
(* returns or raises, and the stream ends or fails once it delivers no more*)
(* events. The last two are weak fairness of the steps that leave an await,*)
(* written out: such a step is enabled exactly when a task is at that      *)
(* await.                                                                  *)
(***************************************************************************)
FairPipeline ==
    /\ SpecPipeline
    /\ WF_vars(TaskStarts)
    /\ \/ []<>(~\E session_id \in DOMAIN task : task[session_id].pc = "await_send")
       \/ []<><<SendSucceeds \/ SendFails>>_vars
    /\ \/ []<>(~\E session_id \in DOMAIN task : task[session_id].pc = "await_event")
       \/ []<><<StreamEnds \/ StreamFails>>_vars

(***************************************************************************)
(* One analysis whose stream may deliver events that cannot be processed   *)
(***************************************************************************)
\* the stream delivers an event whose processing raises
BadEventArrives ==
    \E session_id \in DOMAIN task :
        /\ task[session_id].pc = "await_event"
        /\ task[session_id].events < MaxEvents
        /\ \E w \in {on_chunk_error(World(session_id))} : TaskStep(session_id, w)

BadEventsNext == PipelineNext \/ BadEventArrives

SpecBadEvents == ServerInit /\ [][BadEventsNext]_vars

(***************************************************************************)
(* Analyses from one address without subscribers, and the sweeps: more     *)
(* requests than the address may have sessions                             *)
(***************************************************************************)
\* how many sessions are created
MaxStarted == 5

\* POST /api/analyze from the one address: as many requests as the address
\* may have sessions, requests while the address is at its limit, and up to
\* MaxStarted sessions once a sweep has removed one
AnalyzeMany ==
    /\ \/ next_id <= max_concurrent_sessions_per_ip
       \/ AtLimit("ip1")
       \/ /\ next_id <= MaxStarted
          /\ \E session_id \in DOMAIN task : session_id \notin DOMAIN sessions
    /\ StartAnalysis("ip1")

LimitNext ==
    \/ AnalyzeMany
    \/ TaskStarts
    \/ StreamEnds
    \/ StreamFails
    \/ Sweep
    \/ HourPasses

SpecLimit == ServerInit /\ [][LimitNext]_vars
(***************************************************************************)
(* Claims                                                                  *)
(***************************************************************************)
\* the nodes parser pid yielded from the generator `by`
YieldedBy(pid, by) == SelectSeq(emitted[pid], LAMBDA e : e.by = by)

ScenarioFinalized == P1 \in input.finalized

\* the ids of the nodes parser pid produced before its i-th node
EarlierIds(pid, i) == { emitted[pid][j].node.id : j \in 1..(i - 1) }

\* C2: for every node a parser produced, after any sequence of
\* parse_incremental and finalize calls: the first node of the session has an
\* empty dependencies list; every other node has a non-empty one, and every
\* id in it is the id of a node produced strictly earlier in the session.
C2_Dependencies ==
    \A i \in 1..Len(emitted[P1]) :
        LET dependencies == emitted[P1][i].node.dependencies
        IN  /\ (i = 1) => dependencies = <<>>
            /\ (i > 1) => /\ dependencies # <<>>
                          /\ SeqToSet(dependencies) \subseteq EarlierIds(P1, i)

\* three nodes were produced, and the third depends on both earlier nodes
C2_Witness ==
    /\ Len(emitted[P1]) >= 3
    /\ emitted[P1][1].node.dependencies = <<>>
    /\ SeqToSet(emitted[P1][3].node.dependencies)
           = {emitted[P1][1].node.id, emitted[P1][2].node.id}

\* the set of segments (node contents) parser pid emitted
EmittedSegments(pid) == { emitted[pid][i].node.content : i \in 1..Len(emitted[pid]) }

\* C7: for any text and any way of cutting it into fragments, feeding the
\* fragments one at a time and then calling finalize yields the same set of
\* emitted segments as feeding the whole text in one call and then calling
\* finalize.
C7_RoundTrip ==
    (P1 \in input.finalized /\ P2 \in input.finalized)
        => EmittedSegments(P1) = EmittedSegments(P2)

\* C8 (as stated): in the scenario, parse_incremental has emitted at least one
\* complete segment before finalize is called, and finalize then emits exactly
\* one residual segment.
C8_AsStated ==
    ScenarioFinalized =>
        /\ Len(YieldedBy(P1, "parse_incremental")) >= 1
        /\ Len(YieldedBy(P1, "finalize")) = 1

\* C8 (amended): in the scenario, wherever the text is cut in two,
\* parse_incremental emits no segment at all (while the stream is open nothing
\* has been emitted and the buffer holds exactly the text fed so far), and
\* finalize emits exactly one segment, the whole text.
C8_ScenarioSegments ==
    /\ Len(YieldedBy(P1, "parse_incremental")) = 0
    /\ ~ScenarioFinalized =>
          /\ emitted[P1] = <<>>
          /\ parser[P1].accumulated_text \o input.rest = ScenarioText
    /\ ScenarioFinalized =>
          /\ Len(emitted[P1]) = 1
          /\ emitted[P1][1].by = "finalize"
          /\ emitted[P1][1].node.content = ScenarioText

\* both fragments were fed through parse_incremental and finalize has run
C8_Witness ==
    /\ ScenarioFinalized
    /\ input.calls = 3
    /\ Len(YieldedBy(P1, "finalize")) = 1

\* C9 (as stated): in the scenario, the node built from the segment that
\* contains "implementation" and "code" is classified as implementation.
C9_AsStated ==
    \A i \in 1..Len(emitted[P1]) :
        LET node == emitted[P1][i].node
        IN  (Contains(Lower(node.content), <<"i","m","p","l","e","m","e","n","t","a","t","i","o","n">>)
                /\ Contains(Lower(node.content), <<"c","o","d","e">>))
            => node.type = "implementation"

\* C9 (amended): in the scenario, the node built from the segment that contains
\* "implementation" and "code" (and also "check", "verify" and "confirms") is
\* classified as verification: three verification keywords against two
\* implementation keywords.
C9_ScenarioType ==
    \A i \in 1..Len(emitted[P1]) :
        LET node == emitted[P1][i].node
        IN  (Contains(Lower(node.content), <<"i","m","p","l","e","m","e","n","t","a","t","i","o","n">>)
                /\ Contains(Lower(node.content), <<"c","o","d","e">>))
            => node.type = "verification"

\* a node whose segment contains "implementation", "code", "check", "verify"
\* and "confirms" has been built
C9_Witness ==
    \E i \in 1..Len(emitted[P1]) :
        LET text == Lower(emitted[P1][i].node.content)
        IN  /\ Contains(text, <<"i","m","p","l","e","m","e","n","t","a","t","i","o","n">>) /\ Contains(text, <<"c","o","d","e">>)
            /\ Contains(text, <<"c","h","e","c","k">>) /\ Contains(text, <<"v","e","r","i","f","y">>)
            /\ Contains(text, <<"c","o","n","f","i","r","m","s">>)


(***************************************************************************)
(* Claims about the pipeline and its subscribers                           *)
(***************************************************************************)
\* the positions, in what a websocket received, of the events of one type
EventsAt(websocket, event_type) ==
    { i \in 1..Len(delivered[websocket]) :
          delivered[websocket][i].event_type = event_type }

\* the node counter of the new_thought event a websocket received at position i
CounterAt(websocket, i) == delivered[websocket][i].data.id[3]

\* the new_thought events a websocket received carry strictly increasing node
\* counters, and each carries the node the session holds at that place of its
\* thought_nodes: the order in which the nodes were appended
ThoughtsInOrder(websocket) ==
    LET thoughts == EventsAt(websocket, "new_thought")
    IN  /\ \A i, j \in thoughts : i < j => CounterAt(websocket, i) < CounterAt(websocket, j)
        /\ \A i \in thoughts :
               LET session_id == delivered[websocket][i].session_id
               IN  session_id \in DOMAIN sessions =>
                       /\ CounterAt(websocket, i) <= Len(sessions[session_id].thought_nodes)
                       /\ sessions[session_id].thought_nodes[CounterAt(websocket, i)]
                              = delivered[websocket][i].data

\* a websocket received no new_thought after a thinking_complete
ThoughtsBeforeComplete(websocket) ==
    \A i \in EventsAt(websocket, "new_thought"),
       j \in EventsAt(websocket, "thinking_complete") : i < j

\* C1 (as stated): for every subscriber, the new_thought events delivered to
\* it carry strictly increasing node counters in the order of the session's
\* thought_nodes, no new_thought is delivered after thinking_complete, and
\* every solution_ready delivered to it comes after a thinking_complete
\* delivered to it.
C1_AsStated ==
    \A websocket \in DOMAIN delivered :
        /\ ThoughtsInOrder(websocket)
        /\ ThoughtsBeforeComplete(websocket)
        /\ \A j \in EventsAt(websocket, "solution_ready") :
               \E i \in EventsAt(websocket, "thinking_complete") : i < j

\* the positions, in the broadcast calls a pipeline made, of one event type
PublishedAt(session_id, event_type) ==
    { i \in 1..Len(task[session_id].published) :
          task[session_id].published[i].event_type = event_type }

\* C1 (amended): for every subscriber, the new_thought events delivered to it
\* carry strictly increasing node counters in the order of the session's
\* thought_nodes, no new_thought is delivered after thinking_complete, and no
\* thinking_complete is delivered after solution_ready; the pipeline publishes
\* solution_ready only after it published thinking_complete, and new_thought
\* only before. (A subscriber can receive solution_ready without having
\* received thinking_complete.)
C1_DeliveryOrder ==
    /\ \A websocket \in DOMAIN delivered :
           /\ ThoughtsInOrder(websocket)
           /\ ThoughtsBeforeComplete(websocket)
           /\ \A i \in EventsAt(websocket, "thinking_complete"),
                 j \in EventsAt(websocket, "solution_ready") : i < j
    /\ \A session_id \in DOMAIN task :
           /\ \A j \in PublishedAt(session_id, "solution_ready") :
                  \E i \in PublishedAt(session_id, "thinking_complete") : i < j
           /\ \A i \in PublishedAt(session_id, "new_thought"),
                 j \in PublishedAt(session_id, "thinking_complete") : i < j

\* a subscriber received two new_thought events, thinking_complete and
\* solution_ready
C1_Witness ==
    \E websocket \in DOMAIN delivered :
        /\ Cardinality(EventsAt(websocket, "new_thought")) >= 2
        /\ EventsAt(websocket, "thinking_complete") # {}
        /\ EventsAt(websocket, "solution_ready") # {}

C10_StatusMoves ==
    [][\A session_id \in DOMAIN sessions \cap DOMAIN sessions' :
           LET from == sessions[session_id].status
               to   == sessions'[session_id].status
           IN  from # to =>
                   \/ from = "initializing" /\ to = "streaming"
                   \/ from = "streaming" /\ to = "completed"
                   \/ from \in {"initializing", "streaming"} /\ to = "error"]_vars

\* a session is completed, or in error, after its pipeline delivered events
\* to a subscriber
C10_Witness ==
    \E session_id \in DOMAIN sessions :
        /\ sessions[session_id].status \in {"completed", "error"}
        /\ task[session_id].pc = "cleanup"
        /\ \E websocket \in DOMAIN delivered :
               EventsAt(websocket, "new_thought") # {}

(***************************************************************************)
(* Claims about the session manager                                        *)
(***************************************************************************)
\* the stored sessions of an address that are neither completed nor in error
ActiveSessionsOf(ip_address) ==
    { session_id \in DOMAIN sessions :
          /\ sessions[session_id].ip_address = ip_address
          /\ sessions[session_id].status \notin {"completed", "error"} }

\* C3: in every reachable state, for every address, the number of stored
\* sessions of that address whose status is neither completed nor error is at
\* most max_concurrent_sessions_per_ip.
C3_PerIpLimit ==
    \A ip_address \in Addresses :
        Cardinality(ActiveSessionsOf(ip_address)) <= max_concurrent_sessions_per_ip

\* an address is at its limit while a pipeline of one of its sessions runs
C3_Witness ==
    \E ip_address \in Addresses :
        /\ Cardinality(ActiveSessionsOf(ip_address)) = max_concurrent_sessions_per_ip
        /\ \E session_id \in ActiveSessionsOf(ip_address) :
               sessions[session_id].status = "streaming"

\* C4: a request from an address that already has
\* max_concurrent_sessions_per_ip sessions in a non-terminal status is
\* answered with status 429 (not the 500 of a generic failure) and a detail
\* that is the rate-limit message naming the limit; the session map holds the
\* same sessions with the same contents as before, and no pipeline is queued.
C4_Refused ==
    [][\A ip_address \in Addresses :
           (/\ Cardinality(ActiveSessionsOf(ip_address)) >= max_concurrent_sessions_per_ip
            /\ StartAnalysis(ip_address))
           => /\ response'.status_code = 429
              /\ Contains(response'.detail, <<"R","a","t","e"," ","l","i","m","i","t"," ","e","x","c","e","e","d","e","d">>)
              /\ Contains(response'.detail,
                          <<"M","a","x","i","m","u","m"," ">> \o IntText(max_concurrent_sessions_per_ip) \o <<" ">>)
              /\ sessions' = sessions
              /\ task' = task
              /\ next_id' = next_id]_vars

\* a request was refused with 429 while its address was at the limit
C4_Witness ==
    /\ response.op = "start_analysis"
    /\ response.status_code = 429
    /\ last_op.op = "start_analysis"
    /\ \E ip_address \in Addresses :
           Cardinality(ActiveSessionsOf(ip_address)) = max_concurrent_sessions_per_ip

\* the sessions created strictly before utcnow minus the retention window
CreatedBefore(utcnow) ==
    { session_id \in DOMAIN sessions :
          sessions[session_id].created_at < utcnow - session_cleanup_hours }

\* C6: a sweep removes exactly the sessions created strictly before now minus
\* the retention window, whatever their status, leaves every other session
\* unchanged, removes the swept ids (and nothing else) from the per-address
\* lists, and returns the number of sessions it removed.
C6_Sweep ==
    [][\A session_id \in DOMAIN task :
           CleanupTask(session_id) =>
               LET swept == CreatedBefore(now)
               IN  /\ DOMAIN sessions' = DOMAIN sessions \ swept
                   /\ \A kept \in DOMAIN sessions' : sessions'[kept] = sessions[kept]
                   /\ DOMAIN ip_sessions' = DOMAIN ip_sessions
                   /\ \A ip_address \in DOMAIN ip_sessions :
                          ip_sessions'[ip_address] =
                              SelectSeq(ip_sessions[ip_address], LAMBDA id : id \notin swept)
                   /\ last_op'.returned = Cardinality(swept)]_vars

\* a sweep removed two sessions, one of them while its pipeline was still
\* streaming, and kept a younger one
C6_Witness ==
    /\ last_op.op = "cleanup_old_sessions"
    /\ last_op.returned = 2
    /\ sessions # EmptyDict
    /\ \E session_id \in DOMAIN task :
           /\ session_id \notin DOMAIN sessions
           /\ task[session_id].pc = "await_event"

(***************************************************************************)
(* Claims about what a pipeline leaves in its session                      *)
(***************************************************************************)
\* C11: in every step, a session that exists before and after and whose
\* status was completed or error keeps its thought_nodes, its tokens_used and
\* its solution_text.
C11_Frozen ==
    [][\A session_id \in DOMAIN sessions \cap DOMAIN sessions' :
           sessions[session_id].status \in {"completed", "error"} =>
               /\ sessions'[session_id].thought_nodes = sessions[session_id].thought_nodes
               /\ sessions'[session_id].tokens_used = sessions[session_id].tokens_used
               /\ sessions'[session_id].solution_text = sessions[session_id].solution_text]_vars

\* a completed session holds two nodes, its tokens and its solution while its
\* pipeline is still broadcasting solution_ready
C11_Witness ==
    \E session_id \in DOMAIN sessions :
        /\ sessions[session_id].status = "completed"
        /\ Len(sessions[session_id].thought_nodes) = 2
        /\ sessions[session_id].tokens_used > 0
        /\ sessions[session_id].solution_text # <<>>
        /\ task[session_id].pc = "await_send"
        /\ task[session_id].bc.message.event_type = "solution_ready"

(***************************************************************************)
(* Claims about the nodes a parser produces                                *)
(***************************************************************************)
\* C12: after every parse_incremental or finalize call, every node emitted so
\* far has a content that is trimmed and of at least 10 characters; the node
\* counter advanced by exactly the number of nodes the call emitted; a call
\* that emitted no node left the node counter, the layout position and the
\* recent-node window as they were; and a finalize on a buffer whose trimmed
\* length is below 10 emitted nothing and left the parser as it was.
C12_ShortSegments ==
    [][/\ \A i \in 1..Len(emitted'[P1]) :
              /\ Len(emitted'[P1][i].node.content) >= 10
              /\ Strip(emitted'[P1][i].node.content) = emitted'[P1][i].node.content
       /\ parser'[P1].node_counter - parser[P1].node_counter
              = Len(emitted'[P1]) - Len(emitted[P1])
       /\ emitted'[P1] = emitted[P1] =>
              /\ parser'[P1].node_counter = parser[P1].node_counter
              /\ parser'[P1].x_position = parser[P1].x_position
              /\ parser'[P1].y_position = parser[P1].y_position
              /\ parser'[P1].recent_nodes = parser[P1].recent_nodes
       /\ (last_op'.op = "finalize" /\ Len(Strip(parser[P1].accumulated_text)) < 10) =>
              /\ emitted'[P1] = emitted[P1]
              /\ parser'[P1] = parser[P1]]_vars

\* finalize was called on a buffer of five characters: no node was emitted and
\* no id was drawn
C12_Witness ==
    /\ last_op.op = "finalize"
    /\ Len(Strip(parser[P1].accumulated_text)) \in 1..9
    /\ emitted[P1] = <<>>
    /\ parser[P1].node_counter = 0
    /\ parser[P1].recent_nodes = <<>>

\* the places where a word occurs in a lower-cased text as a whole word
Occurrences(text_lower, word) ==
    { i \in 1..Len(text_lower) :
        /\ MatchAt(text_lower, i, word)
        /\ BoundaryAt(text_lower, i)
        /\ BoundaryAt(text_lower, i + Len(word)) }

\* the keywords are in order of descending frequency, equally frequent ones in
\* the order of their first occurrence; places[i] are the places of keyword i
InFrequencyOrder(places) ==
    \A i, j \in 1..Len(places) :
        i < j =>
            /\ places[i] # {}
            /\ places[j] # {}
            /\ \/ Cardinality(places[i]) > Cardinality(places[j])
               \/ /\ Cardinality(places[i]) = Cardinality(places[j])
                  /\ \E first \in places[i] : \A other \in places[j] : first < other

\* C20: every node a parser emitted has a confidence between 0.0 and 1.0
\* (here 0 and 100 hundredths) and at most 5 keywords, which are pairwise
\* distinct, made of lower-case letters, no stop words, and in order of
\* descending frequency in the node's segment (whatever the case of the
\* letters there), equally frequent ones in the order of their first
\* occurrence.
C20_ConfidenceAndKeywords ==
    \A n \in 1..Len(emitted[P1]) :
        LET node     == emitted[P1][n].node
            keywords == node.keywords
        IN  /\ node.confidence >= 0
            /\ node.confidence <= 100
            /\ Len(keywords) <= 5
            /\ \A i, j \in 1..Len(keywords) : i # j => keywords[i] # keywords[j]
            /\ \A i \in 1..Len(keywords) :
                   /\ \A k \in 1..Len(keywords[i]) : keywords[i][k] \in Lowers
                   /\ keywords[i] \notin stop_words
            /\ Bind(Lower(node.content), LAMBDA text_lower :
                    Bind([i \in 1..Len(keywords) |-> Occurrences(text_lower, keywords[i])],
                         LAMBDA places : /\ \A i \in 1..Len(places) : places[i] # {}
                                         /\ InFrequencyOrder(places)))

\* a node of seven keywords and seven certainty words has confidence 1.0 and
\* the five keywords "must" (7 times, third to occur), "key" (3 times), then
\* "map", "tool", "bolt" (once each); a node of nine hedging words has
\* confidence 0.0
C20_Witness ==
    /\ \E n \in 1..Len(emitted[P1]) :
           /\ emitted[P1][n].node.confidence = 100
           /\ emitted[P1][n].node.keywords = << <<"m","u","s","t">>, <<"k","e","y">>, <<"m","a","p">>, <<"t","o","o","l">>, <<"b","o","l","t">> >>
    /\ \E n \in 1..Len(emitted[P1]) :
           emitted[P1][n].node.confidence = 0

(***************************************************************************)
(* Claims about writes to sessions that are gone                           *)
(***************************************************************************)
\* the ids a caller may pass: those ever created, and one never created
CallerIds == { SessionId(n) : n \in 1..(MaxSwept + 1) }

\* the keyword arguments a caller may pass: the ones run_analysis passes, and
\* ones that name a field no session has
CallerKwargs ==
    { [status |-> "error", error_message |-> <<"b","o","o","m">>],
      [tokens_used |-> 7],
      [colour |-> "red"],
      [status |-> "completed", colour |-> "red"] }

\* update_session and add_thought_node on the session map S: a missing id
\* changes nothing; an existing id changes that session only, in the fields
\* that the call names and the session has (add_thought_node: in its
\* thought_nodes, which gets the node at its end)
WritesAreFramed(S) ==
    \A session_id \in CallerIds :
        /\ \A kwargs \in CallerKwargs :
               LET after == update_session(S, session_id, kwargs)
               IN  IF session_id \notin DOMAIN S THEN after = S
                   ELSE /\ DOMAIN after = DOMAIN S
                        /\ \A other \in DOMAIN S \ {session_id} : after[other] = S[other]
                        /\ DOMAIN after[session_id] = DOMAIN S[session_id]
                        /\ \A key \in DOMAIN S[session_id] :
                               after[session_id][key] =
                                   IF key \in DOMAIN kwargs THEN kwargs[key]
                                   ELSE S[session_id][key]
        /\ LET after == add_thought_node(S, session_id, <<"n","o","d","e">>)
           IN  IF session_id \notin DOMAIN S THEN after = S
               ELSE after = [S EXCEPT ![session_id].thought_nodes = Append(@, <<"n","o","d","e">>)]

\* C13: in every state, update_session and add_thought_node called with an id
\* that is not in the session map (never created, or swept) return with the
\* map unchanged, and update_session on an existing session changes only the
\* fields that the call names and the session has; and every step a pipeline
\* takes after its session was swept, with the appends and updates it makes,
\* leaves the session map as it was.
C13_SilentNoOps ==
    [][/\ WritesAreFramed(sessions')
       /\ \A session_id \in DOMAIN task \ DOMAIN sessions :
              task'[session_id] # task[session_id] => sessions' = sessions]_vars

\* a pipeline whose session was swept has just run to its end, after it
\* built and published nodes: its appends and updates met no session
C13_Witness ==
    /\ last_op.op = "run_analysis"
    /\ \E session_id \in DOMAIN task \ DOMAIN sessions :
           /\ task[session_id].pc = "cleanup"
           /\ ~task[session_id].failed
           /\ task[session_id].parser.node_counter >= 2
           /\ \A other \in DOMAIN task \ {session_id} : task[other].pc = "done"

\* the pipeline of the session consumed the end of the stream in this step
StreamEnded(session_id) ==
    /\ task[session_id].pc = "await_event"
    /\ task'[session_id].output_tokens # task[session_id].output_tokens

\* C14: for a pipeline whose session a sweep removed, in every step: the
\* session is not back in the session map; the task is on its error path only
\* if it was already or if the stream failed in this step; every node its
\* parser built so far has been published as new_thought; and when the stream
\* ends, the task publishes the new_thought of the residual node and then
\* thinking_complete, and finishes off its error path.
C14_SweptMidStream ==
    [][\A session_id \in DOMAIN task \ DOMAIN sessions :
           /\ session_id \notin DOMAIN sessions'
           /\ task'[session_id].failed =>
                  \/ task[session_id].failed
                  \/ /\ task[session_id].pc = "await_event"
                     /\ task'[session_id].output_tokens = task[session_id].output_tokens
                     /\ task'[session_id].error_msg = <<"A","n","t","h","r","o","p","i","c"," ","A","P","I"," ","e","r","r","o","r",":"," ">> \o StreamErrorText
           /\ Cardinality(PublishedAt(session_id, "new_thought")')
                  = task'[session_id].parser.node_counter
           /\ StreamEnded(session_id) =>
                  /\ ~task'[session_id].failed
                  /\ task'[session_id].pc = "cleanup"
                  /\ PublishedAt(session_id, "thinking_complete")' # {}
                  /\ \A i \in PublishedAt(session_id, "new_thought")',
                        j \in PublishedAt(session_id, "thinking_complete")' : i < j
                  /\ PublishedAt(session_id, "error")' = {}]_vars

\* a pipeline found its session gone when its stream ended, and has finished:
\* it is not on its error path, and it published the three nodes its parser
\* built and then thinking_complete
C14_Witness ==
    \E session_id \in DOMAIN task \ DOMAIN sessions :
        /\ task[session_id].pc = "cleanup"
        /\ ~task[session_id].failed
        /\ task[session_id].parser.node_counter = 3
        /\ task[session_id].thought_count = 0
        /\ Cardinality(PublishedAt(session_id, "new_thought")) = 3
        /\ PublishedAt(session_id, "thinking_complete") # {}

(***************************************************************************)
(* Claims about the end of a run                                           *)
(***************************************************************************)
\* the total_thoughts of the thinking_complete events and the
\* thinking_node_count of the solution_ready events a pipeline published
CountsPublished(session_id) ==
    { task[session_id].published[i].data.total_thoughts :
          i \in PublishedAt(session_id, "thinking_complete") }
    \cup { task[session_id].published[i].data.thinking_node_count :
               i \in PublishedAt(session_id, "solution_ready") }

\* C19: when a pipeline has published thinking_complete, every
\* new_thought it published came before, and the total_thoughts of
\* thinking_complete and the thinking_node_count of solution_ready equal the
\* number of nodes the pipeline built and published as new_thought events.
C19_CountsAtCompletion ==
    \A session_id \in DOMAIN task :
        /\ \A i \in PublishedAt(session_id, "new_thought"),
              j \in PublishedAt(session_id, "thinking_complete") : i < j
        /\ \A count \in CountsPublished(session_id) :
               /\ count = task[session_id].parser.node_counter
               /\ count = Cardinality(PublishedAt(session_id, "new_thought"))

(***************************************************************************)
(* Claims about the delivery of events                                     *)
(***************************************************************************)
\* how often a websocket received a message
TimesReceived(websocket, message) ==
    Cardinality({ i \in 1..Len(delivered[websocket]) : delivered[websocket][i] = message })

\* how often the pipeline of a message's session published it
TimesPublished(message) ==
    IF message.session_id \notin DOMAIN task THEN 0
    ELSE Cardinality({ i \in 1..Len(task[message.session_id].published) :
                         WebSocketEvent(task[message.session_id].published[i].event_type,
                                        message.session_id,
                                        task[message.session_id].published[i].data) = message })

\* no websocket received an event more often than it was published
AtMostOnce ==
    \A websocket \in DOMAIN delivered :
        \A i \in 1..Len(delivered[websocket]) :
            delivered[websocket][i].event_type # "connected" =>
                TimesReceived(websocket, delivered[websocket][i])
                    <= TimesPublished(delivered[websocket][i])

\* a pipeline that is not inside a broadcast publishes in this step while its
\* session has no subscriber list: nothing is delivered, no list changes
UnheardPublishChangesNothing ==
    \A session_id \in DOMAIN task :
        (/\ task[session_id].pc # "await_send"
         /\ session_id \notin DOMAIN active_connections
         /\ Len(task'[session_id].published) > Len(task[session_id].published))
        => /\ delivered' = delivered
           /\ active_connections' = active_connections

\* the websocket receives, in this step, the event of a broadcast call that is
\* in progress and is sending to it
ReceivesInFlight(websocket, session_id) ==
    /\ task[session_id].pc = "await_send"
    /\ task[session_id].bc.connection = websocket
    /\ delivered'[websocket] = Append(delivered[websocket], task[session_id].bc.message)

\* the websocket receives, in this step, the confirmation of its connect
ReceivesGreeting(websocket) ==
    /\ ws[websocket].pc = "greet"
    /\ delivered'[websocket] =
           Append(delivered[websocket], ConnectedMessage(ws[websocket].session_id))

Registered(session_id) ==
    { websocket \in DOMAIN ws :
          /\ ws[websocket].session_id = session_id
          /\ ws[websocket].pc \in {"greet", "receive"} }

\* C16: in every state (the tasks are suspended at an await or have not
\* started), no session id of active_connections is mapped to an empty list,
\* no list holds a websocket twice, every websocket in a list belongs to an
\* endpoint that is between its registration and its finally clause, and
\* every such endpoint whose client has not gone is in the list of its session:
\* a session id is a key exactly when it has a registered subscriber.
C16_NoEmptyList ==
    /\ \A session_id \in DOMAIN active_connections :
           LET items == active_connections[session_id].items
           IN  /\ items # <<>>
               /\ \A i, j \in 1..Len(items) : i # j => items[i] # items[j]
               /\ SeqToSet(items) \subseteq Registered(session_id)
    /\ \A websocket \in DOMAIN ws :
           (ws[websocket].pc \in {"greet", "receive"} /\ ~ws[websocket].gone) =>
               /\ ws[websocket].session_id \in DOMAIN active_connections
               /\ websocket \in SeqToSet(active_connections[ws[websocket].session_id].items)

\* the map is empty again while the pipeline still streams: one subscriber
\* was unregistered by its endpoint, the other by a broadcast whose send to
\* it failed
C16_Witness ==
    /\ active_connections = EmptyDict
    /\ \E session_id \in DOMAIN task : task[session_id].pc = "await_event"
    /\ \E closed, failed \in DOMAIN ws :
           /\ ws[closed].pc = "closed"
           /\ ws[failed].pc = "receive"
           /\ ws[failed].gone
           /\ last_op.op = "run_analysis"
           /\ last_op.ended.active
           /\ last_op.ended.disconnected = <<failed>>

(***************************************************************************)
(* Claims about the failure of the stream                                  *)
(***************************************************************************)
\* str(e) of the exception analyze_problem raises
FailureMessage == <<"A","n","t","h","r","o","p","i","c"," ","A","P","I"," ","e","r","r","o","r",":"," ">> \o StreamErrorText

\* the events a pipeline published in this step
PublishedInStep(session_id) ==
    SubSeq(task'[session_id].published,
           Len(task[session_id].published) + 1, Len(task'[session_id].published))

\* C17: the stream of a pipeline fails only while the pipeline awaits it, and
\* the failure is published at once as an error event that carries the failure
\* message; from then on, the pipeline consumes no stream event, does not go
\* back to waiting for the stream, builds no node, and publishes error events
\* only; when it is in its except clause or beyond, the session has status
\* error and the failure message as error_message; and when it has finished,
\* it has been through the except clause.
C17_FatalFailure ==
    [][\A session_id \in DOMAIN task :
           LET before == task[session_id]
               after  == task'[session_id]
           IN  /\ (before.error_msg = <<>> /\ after.error_msg # <<>>) =>
                      /\ before.pc = "await_event"
                      /\ after.error_msg = FailureMessage
                      /\ PublishedInStep(session_id) # <<>>
                      /\ PublishedInStep(session_id)[1].event_type = "error"
                      /\ PublishedInStep(session_id)[1].data.error_message = FailureMessage
               /\ after.error_msg # <<>> =>
                      /\ after.pc \notin {"queued", "await_event"}
                      /\ after.events = before.events
                      /\ after.parser = before.parser
                      /\ sessions'[session_id].thought_nodes = sessions[session_id].thought_nodes
                      /\ \A i \in 1..Len(PublishedInStep(session_id)) :
                             PublishedInStep(session_id)[i].event_type = "error"
               /\ after.failed =>
                      /\ after.error_msg = FailureMessage
                      /\ sessions'[session_id].status = "error"
                      /\ sessions'[session_id].error_message = FailureMessage
               /\ (after.error_msg # <<>> /\ after.pc \in {"cleanup", "done"}) =>
                      after.failed]_vars

\* the stream failed after the pipeline had published a new_thought, the
\* pipeline has finished, the session is in error, and a subscriber received
\* the new_thought and then an error event
C17_Witness ==
    \E session_id \in DOMAIN task :
        /\ task[session_id].failed
        /\ task[session_id].pc = "cleanup"
        /\ sessions[session_id].status = "error"
        /\ sessions[session_id].error_message = FailureMessage
        /\ PublishedAt(session_id, "new_thought") # {}
        /\ \E websocket \in DOMAIN delivered :
               \E i \in EventsAt(websocket, "new_thought"), j \in EventsAt(websocket, "error") :
                   i < j

(***************************************************************************)
(* Claims about the progress of a pipeline                                 *)
(***************************************************************************)
\* the pipeline of the session has started
Started(session_id) ==
    /\ session_id \in DOMAIN task
    /\ task[session_id].pc # "queued"

\* the session is completed or in error, or it is gone
Settled(session_id) ==
    \/ session_id \notin DOMAIN sessions
    \/ sessions[session_id].status \in {"completed", "error"}

\* the step is one of a websocket_endpoint task or of a client
EndpointStep ==
    ClientOpens \/ ClientAccepted \/ ClientGreeted \/ ClientGoes \/ ClientDisconnected

\* C18: under fair scheduling, with a stream that ends or fails, a session
\* whose pipeline has started is eventually completed or in error (or gone),
\* whatever the websockets do; a step of a websocket endpoint or of a client
\* changes neither where the pipeline is nor what it has left to do, and
\* the pipeline is on its error path only if the stream failed.
C18_RunsToTheEnd ==
    /\ Started(SessionId(1)) ~> Settled(SessionId(1))
    /\ [][EndpointStep =>
              \A session_id \in DOMAIN task :
                  /\ task'[session_id].pc = task[session_id].pc
                  /\ task'[session_id].failed = task[session_id].failed
                  /\ task'[session_id].pending = task[session_id].pending
                  /\ task'[session_id].ret = task[session_id].ret
                  /\ sessions' = sessions]_vars
    /\ [](\A session_id \in DOMAIN task :
              task[session_id].failed =>
                  task[session_id].error_msg = <<"A","n","t","h","r","o","p","i","c"," ","A","P","I"," ","e","r","r","o","r",":"," ">> \o StreamErrorText)

\* the session is completed although no websocket ever received an event of
\* its pipeline: one client never registered, the other had gone before the
\* first broadcast
C18_Witness ==
    /\ Started(SessionId(1))
    /\ sessions[SessionId(1)].status = "completed"
    /\ PublishedAt(SessionId(1), "new_thought") # {}
    /\ \E websocket \in DOMAIN ws : ws[websocket].gone
    /\ \A websocket \in DOMAIN delivered :
           \A i \in 1..Len(delivered[websocket]) :
               delivered[websocket][i].event_type = "connected"

(***************************************************************************)
(* Claims about the nodes built from a sequence of segments                *)
(***************************************************************************)
\* the types in the order of the scores dictionary
TypeOrder == <<"implementation", "verification", "decision", "alternative", "analysis">>

\* the score of each type for a text, in that order
ScoresOf(text) ==
    Bind(Lower(text), LAMBDA text_lower :
        << KeywordScore(text_lower, implementation_keywords),
           KeywordScore(text_lower, verification_keywords),
           KeywordScore(text_lower, decision_keywords),
           KeywordScore(text_lower, alternative_keywords),
           KeywordScore(text_lower, analysis_keywords) >>)

\* C21: the type of every node is analysis when all five scores of its
\* segment are zero, and otherwise the first type, in the order
\* implementation, verification, decision, alternative, analysis, whose score
\* is the highest.
C21_FirstHighestType ==
    \A n \in 1..Len(emitted[P1]) :
        Bind(ScoresOf(emitted[P1][n].node.content), LAMBDA score :
            IF \A i \in 1..5 : score[i] = 0
            THEN emitted[P1][n].node.type = "analysis"
            ELSE \E i \in 1..5 :
                    /\ emitted[P1][n].node.type = TypeOrder[i]
                    /\ \A j \in 1..5 : score[j] <= score[i]
                    /\ \A j \in 1..(i - 1) : score[j] < score[i])

\* three nodes: one whose segment scores 1 for implementation, verification
\* and decision alike and is an implementation node, one whose segment scores
\* 1 for alternative only, and one whose segment scores nothing
C21_Witness ==
    /\ \E n \in 1..Len(emitted[P1]) :
           /\ ScoresOf(emitted[P1][n].node.content) = <<1, 1, 1, 0, 0>>
           /\ emitted[P1][n].node.type = "implementation"
    /\ \E n \in 1..Len(emitted[P1]) :
           /\ ScoresOf(emitted[P1][n].node.content) = <<0, 0, 0, 1, 0>>
           /\ emitted[P1][n].node.type = "alternative"
    /\ \E n \in 1..Len(emitted[P1]) :
           /\ ScoresOf(emitted[P1][n].node.content) = <<0, 0, 0, 0, 0>>
           /\ emitted[P1][n].node.type = "analysis"

(***************************************************************************)
(* Claims about the buffer of a parser                                     *)
(***************************************************************************)
\* C22: a finalize call on a parser whose buffer is empty or holds only white
\* space emits no node and leaves the node counter, the recent-node window,
\* the layout position and the buffer as they were, so that the next finalize
\* call finds the same state.
C22_FinalizeOnBlank ==
    [][(last_op'.op = "finalize" /\ Strip(parser[P1].accumulated_text) = <<>>) =>
           /\ emitted'[P1] = emitted[P1]
           /\ parser'[P1].node_counter = parser[P1].node_counter
           /\ parser'[P1].recent_nodes = parser[P1].recent_nodes
           /\ parser'[P1].x_position = parser[P1].x_position
           /\ parser'[P1].y_position = parser[P1].y_position
           /\ parser'[P1].accumulated_text = parser[P1].accumulated_text]_vars

\* three calls, two of them finalize, the first on an empty buffer or on one
\* of two spaces and the last on the buffer of two spaces: no node, no id
C22_Witness ==
    /\ input.calls = 3
    /\ last_op.op = "finalize"
    /\ parser[P1].accumulated_text = <<" "," ">>
    /\ emitted[P1] = <<>>
    /\ parser[P1].node_counter = 0

\* the fragment that the parse_incremental call of this step was given: the
\* whole text for parser P2, the consumed part of the rest for parser P1
FragmentOfStep ==
    IF last_op'.pid = P2
    THEN input.text
    ELSE SubSeq(input.rest, 1, Len(input.rest) - Len(input'.rest))

\* the contents of the nodes that this step emitted from parser pid
ContentsOfStep(pid) ==
    [i \in 1..(Len(emitted'[pid]) - Len(emitted[pid])) |->
        emitted'[pid][Len(emitted[pid]) + i].node.content]

AllButLast(segments) == SubSeq(segments, 1, Len(segments) - 1)

\* C23 as stated: on each parse_incremental call whose buffer, with the new
\* fragment appended, has a segmentation of at least one segment, the parser
\* emits all segments but the last and keeps the last segment as the buffer.
C23_AsStated ==
    [][last_op'.op = "parse_incremental" =>
          Bind(split_into_segments(parser[last_op'.pid].accumulated_text \o FragmentOfStep,
                                   DefaultMinWords),
               LAMBDA segments :
                   Len(segments) >= 1 =>
                       /\ ContentsOfStep(last_op'.pid) = AllButLast(segments)
                       /\ parser'[last_op'.pid].accumulated_text = segments[Len(segments)])]_vars

\* C23: on each parse_incremental call, if the segmentation of the buffer
\* with the new fragment appended has more than one segment, the parser emits
\* all segments but the last, each of at least 20 words, and keeps the last
\* segment as the buffer; otherwise it emits nothing and the buffer is the
\* old buffer with the fragment appended, character for character.
C23_AllButLast ==
    [][last_op'.op = "parse_incremental" =>
          Bind(parser[last_op'.pid].accumulated_text \o FragmentOfStep, LAMBDA accumulated :
              Bind(split_into_segments(accumulated, DefaultMinWords), LAMBDA segments :
                  /\ Len(segments) > 1 =>
                         /\ ContentsOfStep(last_op'.pid) = AllButLast(segments)
                         /\ parser'[last_op'.pid].accumulated_text = segments[Len(segments)]
                  /\ Len(segments) <= 1 =>
                         /\ ContentsOfStep(last_op'.pid) = <<>>
                         /\ parser'[last_op'.pid].accumulated_text = accumulated
                  /\ \A i \in 1..(Len(segments) - 1) :
                         WordCount(segments[i]) >= DefaultMinWords))]_vars

\* parser P1 got all but the last three characters of the text of 20 and 12
\* words: it emitted the first sentence and keeps the ten words that follow,
\* without the space after them
C23_Witness ==
    /\ last_op.op = "parse_incremental"
    /\ last_op.pid = P1
    /\ input.rest = <<"a"," ","a">>
    /\ Len(emitted[P1]) = 1
    /\ emitted[P1][1].node.content = Sentence(20)
    /\ parser[P1].accumulated_text = Sentence(10)

\* no sentence-terminal punctuation followed by white space in the text
NoSentenceEnd(text) ==
    \A i \in 1..(Len(text) - 1) : ~(IsTerminal(text[i]) /\ IsSpace(text[i + 1]))

\* C24: as long as the text streamed so far holds no sentence-terminal
\* punctuation followed by white space, a parse_incremental call emits no
\* node and leaves as buffer the concatenation of all fragments; a finalize
\* call then emits the whole text, trimmed, as a single node if that is at
\* least 10 characters long, and nothing otherwise, and no node was emitted
\* by anything but finalize.
C24_NoPunctuation ==
    [][NoSentenceEnd(input'.text) =>
          /\ parser'[P1].accumulated_text = input'.text
          /\ last_op'.op = "parse_incremental" => emitted'[P1] = emitted[P1]
          /\ last_op'.op = "finalize" =>
                 IF Len(Strip(input.text)) >= 10
                 THEN /\ Len(emitted'[P1]) = Len(emitted[P1]) + 1
                      /\ SubSeq(emitted'[P1], 1, Len(emitted[P1])) = emitted[P1]
                      /\ emitted'[P1][Len(emitted'[P1])].node.content = Strip(input.text)
                 ELSE emitted'[P1] = emitted[P1]
          /\ \A n \in 1..Len(emitted'[P1]) : emitted'[P1][n].by = "finalize"]_vars

\* three fragments, of 20 words or more in all and with sentence-terminal
\* punctuation but none before white space, left the buffer as their
\* concatenation and emitted nothing; finalize then emitted the one node of
\* all their words
C24_Witness ==
    /\ input.calls = 4
    /\ NoSentenceEnd(input.text)
    /\ WordCount(input.text) >= 20
    /\ \E i \in 1..Len(input.text) : IsTerminal(input.text[i])
    /\ last_op.op = "finalize"
    /\ Len(emitted[P1]) = 1
    /\ emitted[P1][1].node.content = Strip(input.text)
    /\ parser[P1].accumulated_text = input.text

(***************************************************************************)
(* Claims about what the pipeline stores before it publishes               *)
(***************************************************************************)
\* the nodes of the new_thought events a pipeline published, in order
RECURSIVE ThoughtsOf(_)
ThoughtsOf(published) ==
    IF published = <<>> THEN <<>>
    ELSE IF Head(published).event_type = "new_thought"
         THEN <<Head(published).data>> \o ThoughtsOf(Tail(published))
         ELSE ThoughtsOf(Tail(published))

\* C25: whenever every task is at an await, the thought_nodes of a session
\* that exists begin with the nodes of the new_thought events its pipeline
\* has published so far, in that order, so that thought_count is never
\* smaller than the number of those events; and when the event a pipeline
\* published last in a step is a new_thought, its node is the last of the
\* session's thought_nodes.
C25_StoredBeforePublished ==
    /\ [](\A session_id \in DOMAIN task \cap DOMAIN sessions :
              Bind(ThoughtsOf(task[session_id].published), LAMBDA thoughts :
                  /\ Len(thoughts) <= Len(sessions[session_id].thought_nodes)
                  /\ SubSeq(sessions[session_id].thought_nodes, 1, Len(thoughts)) = thoughts))
    /\ [][\A session_id \in DOMAIN task \cap DOMAIN sessions' :
              Bind(PublishedInStep(session_id), LAMBDA events :
                  (events # <<>> /\ events[Len(events)].event_type = "new_thought") =>
                      /\ sessions'[session_id].thought_nodes # <<>>
                      /\ sessions'[session_id].thought_nodes[
                             Len(sessions'[session_id].thought_nodes)]
                                 = events[Len(events)].data)]_vars

\* a pipeline is suspended in the broadcast of its second new_thought to a
\* subscriber, and the session holds two nodes, the second of them the node
\* of that event
C25_Witness ==
    \E session_id \in DOMAIN task \cap DOMAIN sessions :
        /\ task[session_id].pc = "await_send"
        /\ task[session_id].bc.message.event_type = "new_thought"
        /\ Len(ThoughtsOf(task[session_id].published)) = 2
        /\ Len(sessions[session_id].thought_nodes) = 2
        /\ sessions[session_id].thought_nodes[2] = task[session_id].bc.message.data

(***************************************************************************)
(* Claims about stream events that cannot be processed                     *)
(***************************************************************************)
\* the error event for a stream event that could not be processed
IsChunkError(event) ==
    /\ event.event_type = "error"
    /\ event.data.error_type = "api_error"
    /\ SubSeq(event.data.error_message, 1, 31) = <<"E","r","r","o","r"," ","p","r","o","c","e","s","s","i","n","g"," ","s","t","r","e","a","m"," ","c","h","u","n","k",":"," ">>

\* the pipeline published an error about the stream as a whole
StreamFailed(session_id) ==
    \E i \in PublishedAt(session_id, "error") :
        ~IsChunkError(task[session_id].published[i])

\* C26: when the processing of a stream event raises, the pipeline publishes
\* one error event about that chunk, to the subscribers registered then, and
\* leaves the session, the parser and its except clause alone; when the
\* broadcast of that event is over, the pipeline waits for the next stream
\* event; and as long as the stream as a whole has not failed, the task is
\* not on its error path and the session's status is not error.
C26_ChunkErrorContained ==
    /\ [][BadEventArrives =>
             \E session_id \in DOMAIN task :
                 /\ task'[session_id].events = task[session_id].events + 1
                 /\ Len(PublishedInStep(session_id)) = 1
                 /\ IsChunkError(PublishedInStep(session_id)[1])
                 /\ sessions' = sessions
                 /\ task'[session_id].parser = task[session_id].parser
                 /\ task'[session_id].failed = task[session_id].failed
                 /\ IF session_id \in DOMAIN active_connections
                    THEN /\ task'[session_id].pc = "await_send"
                         /\ IsChunkError(task'[session_id].bc.message)
                    ELSE task'[session_id].pc = "await_event"]_vars
    /\ [][\A session_id \in DOMAIN task :
             (/\ task[session_id].pc = "await_send"
              /\ IsChunkError(task[session_id].bc.message)
              /\ task'[session_id].pc # "await_send") =>
                 task'[session_id].pc = "await_event"]_vars
    /\ [](\A session_id \in DOMAIN task :
             ~StreamFailed(session_id) =>
                 /\ ~task[session_id].failed
                 /\ session_id \in DOMAIN sessions =>
                        sessions[session_id].status # "error")

\* a websocket received the error event of a bad chunk, then a new_thought
\* and thinking_complete, and the session is completed
C26_Witness ==
    \E websocket \in DOMAIN delivered, session_id \in DOMAIN sessions :
        /\ sessions[session_id].status = "completed"
        /\ \E i \in EventsAt(websocket, "error"),
              j \in EventsAt(websocket, "new_thought"),
              k \in EventsAt(websocket, "thinking_complete") :
               /\ IsChunkError(delivered[websocket][i])
               /\ i < j
               /\ j < k
        /\ \E i \in PublishedAt(session_id, "error"),
              k \in PublishedAt(session_id, "thinking_complete") :
               /\ IsChunkError(task[session_id].published[i])
               /\ i < k

(***************************************************************************)
(* Claims about the scores of the classification                           *)
(***************************************************************************)
\* the number of non-overlapping occurrences of a keyword in a text, counted
\* from index i on
RECURSIVE OccurrencesFrom(_, _, _)
OccurrencesFrom(text_lower, keyword, i) ==
    IF i + Len(keyword) - 1 > Len(text_lower) THEN 0
    ELSE IF MatchAt(text_lower, i, keyword)
         THEN 1 + OccurrencesFrom(text_lower, keyword, i + Len(keyword))
         ELSE OccurrencesFrom(text_lower, keyword, i + 1)

\* the occurrences of all keywords of one type
RECURSIVE OccurrenceScore(_, _)
OccurrenceScore(text_lower, keywords) ==
    IF keywords = <<>> THEN 0
    ELSE OccurrencesFrom(text_lower, Head(keywords), 1)
             + OccurrenceScore(text_lower, Tail(keywords))

\* the occurrence score of each type for a text, in the order of TypeOrder
OccurrenceScoresOf(text) ==
    Bind(Lower(text), LAMBDA text_lower :
        << OccurrenceScore(text_lower, implementation_keywords),
           OccurrenceScore(text_lower, verification_keywords),
           OccurrenceScore(text_lower, decision_keywords),
           OccurrenceScore(text_lower, alternative_keywords),
           OccurrenceScore(text_lower, analysis_keywords) >>)

\* C27: the type of every node is the one that wins when the score of a type
\* is the number of non-overlapping, case-insensitive occurrences of its
\* keywords in the segment: analysis when all scores are zero, otherwise the
\* first type with the highest score; a segment with "check" three times and
\* "implement" and "code" once each is a verification node.
C27_OccurrenceScores ==
    \A n \in 1..Len(emitted[P1]) :
        Bind(OccurrenceScoresOf(emitted[P1][n].node.content), LAMBDA score :
            IF \A i \in 1..5 : score[i] = 0
            THEN emitted[P1][n].node.type = "analysis"
            ELSE \E i \in 1..5 :
                    /\ emitted[P1][n].node.type = TypeOrder[i]
                    /\ \A j \in 1..5 : score[j] <= score[i]
                    /\ \A j \in 1..(i - 1) : score[j] < score[i])

(***************************************************************************)
(* Claims about the dependencies of a node                                 *)
(***************************************************************************)
\* the i-th node a parser built
NodeAt(i) == emitted[P1][i].node

\* the content of the i-th node holds one of the five referential cues as a
\* whole word
HasCue(i) ==
    Bind(Lower(NodeAt(i).content), LAMBDA text_lower :
        \E cue \in { <<"t","h","i","s">>, <<"t","h","a","t">>, <<"t","h","e","r","e","f","o","r","e">>, <<"s","i","n","c","e">>, <<"b","e","c","a","u","s","e">> } :
            SearchWord(text_lower, cue))

\* the earlier nodes, among the last three, that share two keywords or more
\* with the i-th node and are not its predecessor already linked by a cue
SharingNodes(i) ==
    { j \in 1..(i - 1) :
        /\ j >= i - 3
        /\ Cardinality(SeqToSet(NodeAt(i).keywords) \cap SeqToSet(NodeAt(j).keywords)) >= 2
        /\ ~(HasCue(i) /\ j = i - 1) }

\* the ids of the nodes at the indices given
IdsOf(indices) == [k \in 1..Len(indices) |-> NodeAt(indices[k]).id]

Reversed(s) == [k \in 1..Len(s) |-> s[Len(s) + 1 - k]]

\* the list the three rules give, the second one taking the nodes in the
\* order given
DependenciesBy(i, sharing) ==
    Bind((IF HasCue(i) /\ i > 1 THEN <<NodeAt(i - 1).id>> ELSE <<>>) \o IdsOf(sharing),
         LAMBDA dependencies :
             IF dependencies = <<>> /\ i > 1 THEN <<NodeAt(i - 1).id>> ELSE dependencies)

\* C28 as stated: the dependencies of every node are, in this order, the id
\* of its predecessor if its segment holds a cue; the ids of those of the
\* last three nodes, the newest first, that share two keywords or more with it
\* and are not in the list yet; and the predecessor if the list is empty.
C28_AsStated ==
    \A i \in 1..Len(emitted[P1]) :
        NodeAt(i).dependencies = DependenciesBy(i, Reversed(SortedSeq(SharingNodes(i))))

\* C28: the dependencies of every node are, in this order, the id of its
\* predecessor if its segment holds one of this, that, therefore, since,
\* because as a whole word; the ids of those of the last three nodes, the
\* oldest first, that share two keywords or more with it and are not in the
\* list yet; and the predecessor if the list is still empty. The first node
\* has none, and so, thus, hence add none.
C28_OldestFirst ==
    \A i \in 1..Len(emitted[P1]) :
        NodeAt(i).dependencies = DependenciesBy(i, SortedSeq(SharingNodes(i)))

\* five nodes: the third holds "so" and depends on the first only, with which
\* it shares its keywords; the fourth holds "this" and depends on the third
\* and then on the first; the fifth holds no cue and depends on the third and
\* the fourth, in that order
C28_Witness ==
    /\ Len(emitted[P1]) = 5
    /\ SearchWord(Lower(NodeAt(3).content), <<"s","o">>)
    /\ NodeAt(3).dependencies = <<NodeAt(1).id>>
    /\ HasCue(4)
    /\ NodeAt(4).dependencies = <<NodeAt(3).id, NodeAt(1).id>>
    /\ ~HasCue(5)
    /\ NodeAt(5).dependencies = <<NodeAt(3).id, NodeAt(4).id>>

(***************************************************************************)
(* Claims about the confidence of a node                                   *)
(***************************************************************************)
\* the hedging patterns, the first-person belief phrases of the last one
\* written as they occur in a lower-cased text
HedgingWithBeliefs ==
    [k \in 1..Len(hedging_patterns) |->
        [a \in 1..Len(hedging_patterns[k]) |-> Lower(hedging_patterns[k][a])]]

\* C29: the confidence of every node, in hundredths, is 70 plus 5 for every
\* match of a certainty pattern minus 8 for every match of a hedging pattern,
\* the occurrences of "I think", "I believe", "I guess" and "I assume" among
\* them, minus 5 for every question mark, clamped to 0..100.
C29_BeliefsAreHedges ==
    \A n \in 1..Len(emitted[P1]) :
        Bind(Lower(emitted[P1][n].node.content), LAMBDA text_lower :
            LET question_marks == Cardinality({ i \in 1..Len(text_lower) : text_lower[i] = "?" })
                raw == 70 + 5 * SumCounts(text_lower, certainty_patterns)
                          - 8 * SumCounts(text_lower, HedgingWithBeliefs)
                          - 5 * question_marks
            IN  emitted[P1][n].node.confidence
                    = IF raw < 0 THEN 0 ELSE IF raw > 100 THEN 100 ELSE raw)

(***************************************************************************)
(* Claims about the layout                                                 *)
(***************************************************************************)
\* C30: the k-th node a parser built has x = 200 * ((k - 1) mod 3) and
\* y = 100 * floor((k - 1) / 3), and its id carries the number k; and a
\* segment that yields no node leaves the layout position and the node
\* counter as they were.
C30_SnakeLayout ==
    /\ [](\A k \in 1..Len(emitted[P1]) :
              /\ NodeAt(k).id = NodeId(P1, k)
              /\ NodeAt(k).position.x = 200 * ((k - 1) % 3)
              /\ NodeAt(k).position.y = 100 * ((k - 1) \div 3))
    /\ [][emitted'[P1] = emitted[P1] =>
              /\ parser'[P1].x_position = parser[P1].x_position
              /\ parser'[P1].y_position = parser[P1].y_position
              /\ parser'[P1].node_counter = parser[P1].node_counter]_vars

\* five segments, one of the first four too short for a node, made four nodes:
\* the third at (400, 0) and the fourth at (0, 100)
C30_Witness ==
    /\ input.calls = 5
    /\ Len(emitted[P1]) = 4
    /\ Len(Strip(input.text)) >= 10
    /\ NodeAt(3).position = [x |-> 400, y |-> 0]
    /\ NodeAt(4).position = [x |-> 0, y |-> 100]
    /\ parser[P1].x_position = 200
    /\ parser[P1].y_position = 100

(***************************************************************************)
(* Claims about what finalize leaves in the buffer                         *)
(***************************************************************************)
\* C35: a finalize call that emitted a node leaves the buffer empty, and a
\* finalize call that directly follows a finalize call emits no node.
C35_FinalizeConsumes ==
    [][last_op'.op = "finalize" =>
          /\ Len(emitted'[P1]) > Len(emitted[P1]) => parser'[P1].accumulated_text = <<>>
          /\ last_op.op = "finalize" => emitted'[P1] = emitted[P1]]_vars

(***************************************************************************)
(* Claims about the words that go through a parser                         *)
(***************************************************************************)
\* the text without its sentence-terminal punctuation
Unpunctuated(text) == SelectSeq(text, LAMBDA c : ~IsTerminal(c))

\* the words of a text, as text.split() gives them
WordsOf(text) ==
    LET starts == { i \in 1..Len(text) :
                      ~IsSpace(text[i]) /\ (i = 1 \/ IsSpace(text[i - 1])) }
        EndOf(i) == CHOOSE j \in i..Len(text) :
                      /\ \A k \in i..j : ~IsSpace(text[k])
                      /\ (j = Len(text) \/ IsSpace(text[j + 1]))
    IN  Bind(SortedSeq(starts), LAMBDA at :
            [k \in 1..Len(at) |-> SubSeq(text, at[k], EndOf(at[k]))])

\* the contents of the nodes a parser emitted, one after the other
RECURSIVE EmittedText(_)
EmittedText(nodes) ==
    IF nodes = <<>> THEN <<>>
    ELSE Head(nodes).node.content \o <<" ">> \o EmittedText(Tail(nodes))

\* the part of the text that parser pid was given so far
FedSoFar(pid) ==
    IF pid = P2
    THEN (IF parser[P2] = NewParser(P2) /\ emitted[P2] = <<>> THEN <<>> ELSE input.text)
    ELSE SubSeq(input.text, 1, Len(input.text) - Len(input.rest))

\* C31: for a parser that was not finalized, the words of the segments it
\* emitted followed by the words of its buffer are the words of the fragments
\* it was given, in the same order (sentence-terminal punctuation left aside).
C31_NoWordLostOrFused ==
    \A pid \in DOMAIN parser \ input.finalized :
        WordsOf(Unpunctuated(EmittedText(emitted[pid]) \o parser[pid].accumulated_text))
            = WordsOf(Unpunctuated(FedSoFar(pid)))

(***************************************************************************)
(* Claims about subscribers that leave during a broadcast                  *)
(***************************************************************************)
\* C32: when a broadcast call returns, every websocket that was registered
\* when the call started, is still registered, and whose client is there has
\* been sent the event exactly once, whatever other subscribers did during
\* the call.
C32_NoSubscriberSkipped ==
    LET b == last_op.ended
    IN  (last_op.op = "run_analysis" /\ b.active) =>
            \A websocket \in SeqToSet(b.registered) \cap SeqToSet(b.after) :
                ~ws[websocket].gone =>
                    /\ Cardinality({ i \in 1..Len(b.sent) : b.sent[i] = websocket }) = 1
                    /\ TimesReceived(websocket, b.message) >= 1

(***************************************************************************)
(* Claims about the error events of a failed stream                        *)
(***************************************************************************)
\* C33: a websocket never receives more than one error event for the fatal
\* failure of its session's stream, and a pipeline publishes an error event
\* only in a step that leaves the session with status error.
C33_OneErrorAfterStatus ==
    /\ [](\A websocket \in DOMAIN delivered :
             Cardinality(EventsAt(websocket, "error")) <= 1)
    /\ [][\A session_id \in DOMAIN task :
             (\E i \in 1..Len(PublishedInStep(session_id)) :
                  PublishedInStep(session_id)[i].event_type = "error") =>
                 /\ session_id \in DOMAIN sessions'
                 /\ sessions'[session_id].status = "error"]_vars


(***************************************************************************)
(* Claims about the number of pipelines of an address                      *)
(***************************************************************************)
\* the run_analysis tasks that have started and not yet finished
RunningPipelines ==
    { session_id \in DOMAIN task : task[session_id].pc \in {"await_event", "await_send"} }

\* C34: at any time at most max_concurrent_sessions_per_ip run_analysis tasks
\* of an address have started and not yet finished (every request of the
\* specification comes from the same address), whatever the order of
\* requests, pipeline steps and sweeps.
C34_PipelinesWithinLimit ==
    Cardinality(RunningPipelines) <= max_concurrent_sessions_per_ip
====
